---- MODULE Spec2Model ----
(***************************************************************************)
(* A model of the line-editing console of egui_console (src/src/console.rs) *)
(* Text is a sequence of one-character strings; Option<T> is a sequence of  *)
(* length 0 (None) or 1 (Some); indices into the history and the buffer are *)
(* the 0-based indices of the source.                                       *)
(***************************************************************************)
EXTENDS Integers, Sequences, FiniteSets, TLC

\* ------------------------------------------------------------------ bounds
\* largest history_size a console is built with
MaxHistSize == 1
\* most characters the user types into one line
MaxLine == 1
\* most lines the buffer grows to through prompt() and write()
MaxLines == 2
\* most characters the user types into the search slot
MaxQuery == 1
\* the scrollback_size the console is built with
ScrollbackSize == 2
\* the history_size and the longest query of the search sessions
SearchHistSize == 3
SearchMaxQuery == 2
\* most style spans a styling session pushes between two clears
MaxSpans == 2
\* most writes of a writing session
MaxWrites == 4
\* most arguments, subcommands and flat table entries a completion session registers
MaxArgs == 2
MaxSubs == 2
MaxTable == 3
\* most Tab presses of one completion cycle
MaxTabs == 3
\* most commands one script queues
MaxScript == 2
\* most history entries an enhanced search looks through
MaxSearched == 2
\* most consoles one process builds
MaxBuilt == 65537

\* --------------------------------------------------------- Option<T>, text
None == <<>>

Some(x) == <<x>>

is_some(o) == Len(o) = 1

unwrap_or(o, d) == IF Len(o) = 1 THEN o[1] ELSE d

NL == "\n"

COLON == ":"

starts_with(s, p) == Len(p) <= Len(s) /\ SubSeq(s, 1, Len(p)) = p

ends_with(s, p) == Len(p) <= Len(s) /\ SubSeq(s, Len(s) - Len(p) + 1, Len(s)) = p

strip_prefix(s, p) == IF starts_with(s, p) THEN Some(SubSeq(s, Len(p) + 1, Len(s))) ELSE None

strip_suffix(s, p) == IF ends_with(s, p) THEN Some(SubSeq(s, 1, Len(s) - Len(p))) ELSE None

\* str::contains: q occurs in s as a contiguous, case-sensitive substring
contains(s, q) == \E i \in 0..(Len(s) - Len(q)) : SubSeq(s, i + 1, i + Len(q)) = q

\* 1-based position of the last newline of s at or before i, 0 when there is none
rfind_from(s, i) ==
    IF \E k \in 1..i : s[k] = NL
    THEN CHOOSE k \in 1..i : s[k] = NL /\ \A j \in (k + 1)..i : s[j] # NL
    ELSE 0

rfind_nl(s) == rfind_from(s, Len(s))

\* 1-based position of the first newline of s at or after i, 0 when there is none
find_from(s, i) ==
    IF \E k \in i..Len(s) : s[k] = NL
    THEN CHOOSE k \in i..Len(s) : s[k] = NL /\ \A j \in i..(k - 1) : s[j] # NL
    ELSE 0

find_nl(s) == find_from(s, 1)

\* s split at its newlines, the first of which is at k (0: none)
RECURSIVE split_at(_, _)
split_at(s, k) ==
    IF k = 0 THEN <<s>>
    ELSE <<SubSeq(s, 1, k - 1)>>
         \o split_at(SubSeq(s, k + 1, Len(s)), find_nl(SubSeq(s, k + 1, Len(s))))

split_nl(s) == split_at(s, find_nl(s))

\* str::lines: split at newlines; one trailing newline ends the last line
\* and does not open an empty one; the empty text has no lines
chomp(s) == IF s # <<>> /\ s[Len(s)] = NL THEN SubSeq(s, 1, Len(s) - 1) ELSE s

lines(s) == IF s = <<>> THEN <<>> ELSE split_nl(chomp(s))

\* lines().count()
lines_count(s) == IF s = <<>> THEN 0 ELSE Cardinality({i \in 1..Len(chomp(s)) : chomp(s)[i] = NL}) + 1

\* the text after the last newline of t
last_of(t) == SubSeq(t, rfind_nl(t) + 1, Len(t))

\* lines().last()
lines_last(s) == IF s = <<>> THEN None ELSE Some(last_of(chomp(s)))

\* -------------------------------------------------------------- constants
SEARCH_PROMPT == <<"(", "r", "e", "v", "e", "r", "s", "e", "-", "i", "-",
                   "s", "e", "a", "r", "c", "h", ")", " ", ":">>

SEARCH_PROMPT_SLOT_OFF == 18

\* the prompt of ConsoleBuilder::new, and the prompts the search sessions are built with
DefaultPrompt == <<">", ">", " ">>

Prompts == { DefaultPrompt, <<"$">> }

\* the characters the user types
Alphabet == {"a"}

\* histories handed to load_history (oldest first)
Histories == { << <<>>, <<"a">> >> }

\* texts handed to write
WriteData == { <<"o">> }

\* the search sessions: a loaded history of three commands, a two-letter keyboard
cab == <<"c", "a", "b">>

xab == <<"x", "a", "b">>

abc == <<"a", "b", "c">>

SearchHistories == { <<cab, xab, abc>> }

SearchAlphabet == {"a", "b"}

\* ------------------------------------------------------------------ state
VARIABLES text, force_cursor_to_end, history_size, scrollback_size,
          command_history, history_cursor, prompt, prompt_len,
          save_prompt, search_partial, init_done, styled_segments,
          cursor, panicked, op, ret, was_searching, keep_styles, overflow_checks, written,
          aliases, command_structure, tab_command_table, input, suggestions,
          tab_string, tab_nth, INSTANCE_COUNT, id, first_id, built,
          koto_runtime, koto_mode, egui_commands, theme, applied, koto_ok, event, koto_script

vars == <<text, force_cursor_to_end, history_size, scrollback_size,
          command_history, history_cursor, prompt, prompt_len,
          save_prompt, search_partial, init_done, styled_segments,
          cursor, panicked, op, ret, was_searching, keep_styles, overflow_checks, written,
          aliases, command_structure, tab_command_table, input, suggestions,
          tab_string, tab_nth, INSTANCE_COUNT, id, first_id, built,
          koto_runtime, koto_mode, egui_commands, theme, applied, koto_ok, event, koto_script>>

\* the console as one value, for the methods below
Self == [text |-> text, force_cursor_to_end |-> force_cursor_to_end,
         history_size |-> history_size, scrollback_size |-> scrollback_size,
         command_history |-> command_history, history_cursor |-> history_cursor,
         prompt |-> prompt, prompt_len |-> prompt_len,
         save_prompt |-> save_prompt, search_partial |-> search_partial,
         init_done |-> init_done, styled_segments |-> styled_segments,
         tab_string |-> tab_string, tab_nth |-> tab_nth,
         tab_command_table |-> tab_command_table,
         koto_runtime |-> koto_runtime, koto_mode |-> koto_mode,
         egui_commands |-> egui_commands, theme |-> theme,
         overflow_checks |-> overflow_checks,
         panicked |-> panicked]

\* ---------------------------------------------------------------- methods
last_line_offset(c) == rfind_nl(c.text)

get_last_line(c) == unwrap_or(strip_prefix(unwrap_or(lines_last(c.text), <<>>), c.prompt), <<>>)

\* lines i of the buffer with i > line_count - scrollback_size, each followed by a newline
RECURSIVE keep_lines(_, _, _)
keep_lines(ls, i, from) ==
    IF i >= Len(ls) THEN <<>>
    ELSE (IF i > from THEN ls[i + 1] \o <<NL>> ELSE <<>>) \o keep_lines(ls, i + 1, from)

\* truncate_scroll_back that keeps scrollback_size lines
truncate_scroll_back_keeping_one_more(c) ==
    IF lines_count(c.text) < c.scrollback_size THEN c
    ELSE [c EXCEPT !.text = keep_lines(lines(c.text), 0, lines_count(c.text) - c.scrollback_size - 1)]

truncate_scroll_back(c) ==
    IF lines_count(c.text) < c.scrollback_size THEN c
    ELSE [c EXCEPT !.text = keep_lines(lines(c.text), 0, lines_count(c.text) - c.scrollback_size)]

\* 0-based index of the first colon of last at or after e, -1 when there is none
RECURSIVE find_colon(_, _)
find_colon(last, e) ==
    IF e >= Len(last) THEN -1 ELSE IF last[e + 1] = COLON THEN e ELSE find_colon(last, e + 1)

\* last[start..end] of get_search_text, end being the colon found after start
slot_text(last, end) ==
    IF Len(last) <= SEARCH_PROMPT_SLOT_OFF + 1 \/ end < 0 THEN <<>>
    ELSE SubSeq(last, SEARCH_PROMPT_SLOT_OFF + 2, end)

search_text_of(last) == slot_text(last, find_colon(last, SEARCH_PROMPT_SLOT_OFF + 2))

get_search_text(c) == search_text_of(unwrap_or(lines_last(c.text), <<>>))

\* a style span (start..end, style) over the text pushed after t
span(t, pushed, style) == [start |-> Len(t), end |-> Len(t) + Len(pushed), style |-> style]

\* push_str(pushed) on the text t of c, with its style span
push_styled(c, t, pushed, style) ==
    [c EXCEPT !.text = t \o pushed,
              !.styled_segments = Append(@, span(t, pushed, style))]

\* the text with a newline pushed unless it is empty or ends with one
on_new_line(t) == IF t # <<>> /\ t[Len(t)] # NL THEN t \o <<NL>> ELSE t

draw_prompt(c) == push_styled(c, on_new_line(c.text), c.prompt, "prompt")

\* enter_search_mode that leaves the line in place before the search prompt
enter_search_mode_keeping_line(c) ==
    [push_styled(c, c.text, SEARCH_PROMPT, "info")
        EXCEPT !.save_prompt = Some(c.prompt),
               !.prompt = SEARCH_PROMPT,
               !.search_partial = Some(<<>>),
               !.force_cursor_to_end = TRUE]

\* enter_search_mode that saves the prompt after installing the search prompt
enter_search_mode_saving_late(c) ==
    [push_styled(c, SubSeq(c.text, 1, last_line_offset(c)), SEARCH_PROMPT, "info")
        EXCEPT !.save_prompt = Some(SEARCH_PROMPT),
               !.prompt = SEARCH_PROMPT,
               !.search_partial = Some(<<>>),
               !.force_cursor_to_end = TRUE]

\* enter_search_mode that saves no prompt
enter_search_mode_not_saving(c) ==
    [push_styled(c, SubSeq(c.text, 1, last_line_offset(c)), SEARCH_PROMPT, "info")
        EXCEPT !.prompt = SEARCH_PROMPT,
               !.search_partial = Some(<<>>),
               !.force_cursor_to_end = TRUE]

enter_search_mode(c) ==
    [push_styled(c, SubSeq(c.text, 1, last_line_offset(c)), SEARCH_PROMPT, "info")
        EXCEPT !.save_prompt = Some(c.prompt),
               !.prompt = SEARCH_PROMPT,
               !.search_partial = Some(<<>>),
               !.force_cursor_to_end = TRUE]

\* exit_search_mode that drops the saved prompt without restoring it
exit_search_mode_keeping_prompt(c) ==
    IF c.save_prompt = None THEN [c EXCEPT !.panicked = TRUE]
    ELSE [draw_prompt([c EXCEPT !.save_prompt = None,
                                !.text = SubSeq(c.text, 1, last_line_offset(c))])
            EXCEPT !.search_partial = None, !.force_cursor_to_end = TRUE]

\* save_prompt.take().unwrap() panics when no prompt was saved
exit_search_mode(c) ==
    IF c.save_prompt = None THEN [c EXCEPT !.panicked = TRUE]
    ELSE [draw_prompt([c EXCEPT !.prompt = c.save_prompt[1],
                                !.save_prompt = None,
                                !.text = SubSeq(c.text, 1, last_line_offset(c))])
            EXCEPT !.search_partial = None, !.force_cursor_to_end = TRUE]

\* if self.search_partial.is_some() { self.exit_search_mode() }
leave_search(c) == IF is_some(c.search_partial) THEN exit_search_mode(c) ELSE c

\* the loop of history_back: [cursor |-> history_cursor after the loop,
\* line |-> hist_line, panic |-> an index past the end of the history],
\* scanning i = hc-1 down to 0
RECURSIVE history_scan(_, _)
history_scan(c, i) ==
    IF i < 0 THEN [cursor |-> c.history_cursor, line |-> <<>>, panic |-> FALSE]
    ELSE IF is_some(c.search_partial)
         THEN IF c.search_partial[1] = <<>>
              THEN [cursor |-> None, line |-> <<>>, panic |-> FALSE]
              ELSE IF i >= Len(c.command_history)
                   THEN [cursor |-> c.history_cursor, line |-> <<>>, panic |-> TRUE]
                   ELSE IF contains(c.command_history[i + 1], c.search_partial[1])
                        THEN [cursor |-> Some(i), line |-> c.command_history[i + 1], panic |-> FALSE]
                        ELSE history_scan(c, i - 1)
         ELSE IF i >= Len(c.command_history)
              THEN [cursor |-> c.history_cursor, line |-> <<>>, panic |-> TRUE]
              ELSE [cursor |-> Some(i), line |-> c.command_history[i + 1], panic |-> FALSE]

\* the text with the line after the prompt taken off its end
strip_last_line(c) == unwrap_or(strip_suffix(c.text, get_last_line(c)), <<>>)

\* the end of history_back: a non-empty hist_line replaces the line
history_show(c, line) ==
    IF line # <<>> THEN [c EXCEPT !.text = strip_last_line(c) \o line] ELSE c

\* history_back after its loop returned r
history_found(c, r) ==
    IF r.panic THEN [c EXCEPT !.panicked = TRUE]
    ELSE history_show([c EXCEPT !.history_cursor = r.cursor], r.line)

\* history_back that starts every scan at the newest entry
history_back_from_newest(c) ==
    history_found(c, history_scan(c, Len(c.command_history) - 1))

history_back(c) ==
    history_found(c, history_scan(c, (IF is_some(c.history_cursor) THEN c.history_cursor[1]
                                      ELSE Len(c.command_history)) - 1))

\* ----------------------------------------------------------- completion.rs
SP == " "

\* the byte of a character, the order String::cmp compares by
byte(ch) ==
    CASE ch = " " -> 32
      [] ch = "U" -> 85
      [] ch = "[" -> 91
      [] ch = "]" -> 93
      [] ch = "d" -> 100
      [] ch = "e" -> 101
      [] ch = "f" -> 102
      [] ch = "i" -> 105
      [] ch = "l" -> 108
      [] ch = "m" -> 109
      [] ch = "n" -> 110
      [] ch = "o" -> 111
      [] ch = "q" -> 113
      [] ch = "t" -> 116
      [] ch = "u" -> 117
      [] ch = "w" -> 119
      [] ch = "x" -> 120

\* String::cmp(a, b) = Less
RECURSIVE str_lt(_, _)
str_lt(a, b) ==
    IF b = <<>> THEN FALSE
    ELSE IF a = <<>> THEN TRUE
    ELSE IF Head(a) = Head(b) THEN str_lt(Tail(a), Tail(b))
    ELSE byte(Head(a)) < byte(Head(b))

RECURSIVE insert_sorted(_, _)
insert_sorted(s, x) ==
    IF s = <<>> THEN <<x>>
    ELSE IF str_lt(x, Head(s)) THEN <<x>> \o s
    ELSE <<Head(s)>> \o insert_sorted(Tail(s), x)

\* Vec::sort
RECURSIVE sort(_)
sort(s) == IF s = <<>> THEN <<>> ELSE insert_sorted(sort(Tail(s)), Head(s))

\* Vec::dedup: of every run of equal neighbours one element is kept
RECURSIVE dedup(_)
dedup(s) ==
    IF Len(s) < 2 THEN s
    ELSE IF s[1] = s[2] THEN dedup(Tail(s))
    ELSE <<s[1]>> \o dedup(Tail(s))

\* Vec::dedup left out
dedup_none(s) == s

\* iter().filter(|x| x.starts_with(p)).cloned().collect()
RECURSIVE filter_prefix(_, _)
filter_prefix(s, p) ==
    IF s = <<>> THEN <<>>
    ELSE IF starts_with(Head(s), p) THEN <<Head(s)>> \o filter_prefix(Tail(s), p)
    ELSE filter_prefix(Tail(s), p)

RECURSIVE trim_start(_)
trim_start(s) == IF s # <<>> /\ Head(s) = SP THEN trim_start(Tail(s)) ELSE s

RECURSIVE trim_end(_)
trim_end(s) == IF s # <<>> /\ s[Len(s)] = SP THEN trim_end(SubSeq(s, 1, Len(s) - 1)) ELSE s

\* str::trim
trim(s) == trim_end(trim_start(s))

\* the length of the token s starts with
RECURSIVE token_len(_)
token_len(s) == IF s = <<>> \/ Head(s) = SP THEN 0 ELSE 1 + token_len(Tail(s))

\* str::split_whitespace().collect()
RECURSIVE split_whitespace(_)
RECURSIVE split_token(_, _)
split_whitespace(s) == IF trim_start(s) = <<>> THEN <<>> ELSE split_token(trim_start(s), token_len(trim_start(s)))

split_token(s, n) == <<SubSeq(s, 1, n)>> \o split_whitespace(SubSeq(s, n + 1, Len(s)))

\* HashMap::new
EmptyMap == [k \in {} |-> <<>>]

\* HashMap::insert
insert(map, key, value) == [k \in DOMAIN map \cup {key} |-> IF k = key THEN value ELSE map[k]]

\* a HashMap yields its keys in an order the program does not choose:
\* every sequence that lists each key once
Enumerations(S) == { s \in [1..Cardinality(S) -> S] : \A x \in S : \E i \in 1..Cardinality(S) : s[i] = x }

\* CommandInfo after register_command (the description is never read by get_suggestions)
NewCommandInfo == [subcommands |-> <<>>, arguments |-> <<>>]

RECURSIVE insert_aliases(_, _, _)
insert_aliases(map, names, command) ==
    IF names = <<>> THEN map
    ELSE insert_aliases(insert(map, Head(names), command), Tail(names), command)

\* IntelligentCompletion as one value
Index(al, cs) == [aliases |-> al, command_structure |-> cs]

register_command(ic, command, names) ==
    Index(insert_aliases(ic.aliases, names, command), insert(ic.command_structure, command, NewCommandInfo))

register_argument(ic, command, arg_name, required) ==
    IF command \in DOMAIN ic.command_structure
    THEN [ic EXCEPT !.command_structure[command].arguments = Append(@, [name |-> arg_name, is_required |-> required])]
    ELSE ic

register_subcommand(ic, parent, subcommand) ==
    IF parent \in DOMAIN ic.command_structure
    THEN [ic EXCEPT !.command_structure[parent].subcommands = Append(@, subcommand)]
    ELSE ic

resolve_command(ic, word) ==
    IF word \in DOMAIN ic.command_structure THEN Some(word)
    ELSE IF word \in DOMAIN ic.aliases THEN Some(ic.aliases[word])
    ELSE None

\* format!("{}{}", if arg.is_required { "" } else { "[" }, arg.name)
argument_label(arg) == (IF arg.is_required THEN <<>> ELSE <<"[">>) \o arg.name

argument_labels(args) == [i \in 1..Len(args) |-> argument_label(args[i])]

\* matches.dedup() left out
single_token_without_dedup(first_word, keys, alias_keys) ==
    dedup_none(sort(filter_prefix(keys, first_word) \o filter_prefix(alias_keys, first_word)))

\* get_suggestions for one token: the keys of both maps in the orders given
single_token(first_word, keys, alias_keys) ==
    dedup(sort(filter_prefix(keys, first_word) \o filter_prefix(alias_keys, first_word)))

\* get_suggestions for two or more tokens, once the command is looked up
command_suggestions(cmd_info, parts) ==
    IF Len(parts) = 2 /\ cmd_info.subcommands # <<>>
    THEN filter_prefix(cmd_info.subcommands, parts[2])
    ELSE IF cmd_info.arguments # <<>> THEN argument_labels(cmd_info.arguments)
    ELSE <<>>

resolved_suggestions(ic, command, parts) ==
    IF ~is_some(command) THEN <<>>
    ELSE IF command[1] \in DOMAIN ic.command_structure
    THEN command_suggestions(ic.command_structure[command[1]], parts)
    ELSE <<>>

suggestions_for(ic, parts, keys, alias_keys) ==
    IF parts = <<>> THEN keys
    ELSE IF Len(parts) = 1 THEN single_token(parts[1], keys, alias_keys)
    ELSE resolved_suggestions(ic, resolve_command(ic, parts[1]), parts)

get_suggestions(ic, line, keys, alias_keys) ==
    suggestions_for(ic, split_whitespace(trim(line)), keys, alias_keys)

\* the fallback of get_intelligent_suggestions: intelligent_completion is
\* None in every console ConsoleWindow::new builds and nothing assigns it
flat_suggestions(table, trimmed) ==
    IF trimmed = <<>> THEN table ELSE filter_prefix(table, trimmed)

get_intelligent_suggestions(table, line) == flat_suggestions(table, trim(line))

\* -------------------------------------------------------------- handle_key
\* the value handle_key returns, with the console it leaves behind
hk(c, kill, cmd) == [c |-> c, kill |-> kill, cmd |-> cmd]

\* ------------------------------------------------------------------ tab.rs
\* tab_complete as the specification describes it: the first Tab remembers the
\* token being completed and shows the first candidate, every further Tab
\* shows the next candidate for the remembered token, in place of the token

\* the part of the line after its last space
RECURSIVE last_token(_)
last_token(l) ==
    IF l = <<>> \/ l[Len(l)] = SP THEN <<>>
    ELSE Append(last_token(SubSeq(l, 1, Len(l) - 1)), l[Len(l)])

\* no cycle is under way while the index is 0
tab_prefix(c) == IF c.tab_nth = 0 THEN last_token(get_last_line(c)) ELSE c.tab_string

tab_splice(c, prefix, nth, candidates) ==
    IF candidates = <<>> THEN c
    ELSE [c EXCEPT !.text = SubSeq(c.text, 1, Len(c.text) - Len(last_token(get_last_line(c))))
                               \o candidates[(nth % Len(candidates)) + 1],
                   !.tab_string = prefix,
                   !.tab_nth = nth + 1,
                   !.force_cursor_to_end = TRUE]

tab_complete(c) ==
    tab_splice(c, tab_prefix(c), c.tab_nth,
               get_intelligent_suggestions(c.tab_command_table, tab_prefix(c)))

handle_key_Tab(c) == hk(tab_complete(c), TRUE, None)

\* history_forward that shows the entry at the cursor it leaves
history_forward_same_entry(c, hc, n) ==
    IF n = 0 THEN [c EXCEPT !.panicked = TRUE]
    ELSE IF hc = n - 1 THEN [c EXCEPT !.history_cursor = None]
    ELSE IF hc < n - 1
         THEN [c EXCEPT !.text = c.text \o c.command_history[hc + 1],
                        !.history_cursor = Some(hc + 1)]
         ELSE c

\* ArrowDown with the cursor at hc of n entries, the line already taken off;
\* len() - 1 on an empty history is an overflow panic, or a wrapped bound
\* followed by an out-of-range index
history_forward(c, hc, n) ==
    IF n = 0 THEN [c EXCEPT !.panicked = TRUE]
    ELSE IF hc = n - 1 THEN [c EXCEPT !.history_cursor = None]
    ELSE IF hc < n - 1
         THEN [c EXCEPT !.text = c.text \o c.command_history[hc + 2],
                        !.history_cursor = Some(hc + 1)]
         ELSE c

\* ArrowDown once search mode is left
arrow_down(c) ==
    IF c.panicked \/ ~is_some(c.history_cursor) THEN hk(c, TRUE, None)
    ELSE hk(history_forward([c EXCEPT !.text = strip_last_line(c)],
                            c.history_cursor[1], Len(c.command_history)), TRUE, None)

handle_key_ArrowDown(c) == arrow_down(leave_search(c))

\* ArrowUp once search mode is left
arrow_up(c) == IF c.panicked THEN hk(c, TRUE, None) ELSE hk(history_back(c), TRUE, None)

handle_key_ArrowUp(c) ==
    IF c.command_history = <<>> THEN hk(c, TRUE, None) ELSE arrow_up(leave_search(c))

\* VecDeque::pop_front on a full history, then push_back
push_history(h, size, line) ==
    (IF Len(h) >= size /\ h # <<>> THEN Tail(h) ELSE h) \o <<line>>

\* Enter that commits no empty line
commit_skipping_empty(c, last) ==
    IF c.panicked \/ last = <<>> THEN hk(c, TRUE, None)
    ELSE hk(truncate_scroll_back(
                [c EXCEPT !.command_history = push_history(c.command_history, c.history_size, last),
                          !.force_cursor_to_end = TRUE,
                          !.history_cursor = None]), TRUE, Some(last))

\* Enter once search mode is left, last being the line read before
commit(c, last) ==
    IF c.panicked THEN hk(c, TRUE, None)
    ELSE hk(truncate_scroll_back(
                [c EXCEPT !.command_history = push_history(c.command_history, c.history_size, last),
                          !.force_cursor_to_end = TRUE,
                          !.history_cursor = None]), TRUE, Some(last))

\* Enter that reads the line after search mode is left
handle_key_Enter_reading_late(c) == commit(leave_search(c), get_last_line(leave_search(c)))

handle_key_Enter(c) == commit(leave_search(c), get_last_line(c))

\* Delete and ArrowRight refused only past the colon of the search prompt
handle_key_Delete_past_colon(c, cur) ==
    IF is_some(c.search_partial)
       /\ cur > last_line_offset(c) + Len(SEARCH_PROMPT) + Len(c.search_partial[1])
    THEN hk(c, TRUE, None)
    ELSE hk(c, FALSE, None)

\* Delete and ArrowRight share one body
handle_key_Delete(c, cur) ==
    IF is_some(c.search_partial)
       /\ cur > last_line_offset(c) + Len(SEARCH_PROMPT) - 2 + Len(c.search_partial[1])
    THEN hk(c, TRUE, None)
    ELSE hk(c, FALSE, None)

handle_key_ArrowRight(c, cur) == handle_key_Delete(c, cur)

\* ArrowLeft and Backspace refused only inside the prompt
handle_key_ArrowLeft_at_prompt(c, cur) ==
    IF is_some(c.search_partial)
    THEN IF cur < last_line_offset(c) + SEARCH_PROMPT_SLOT_OFF + 2
         THEN hk(c, TRUE, None) ELSE hk(c, FALSE, None)
    ELSE IF cur < last_line_offset(c) + Len(c.prompt)
         THEN hk(c, TRUE, None) ELSE hk(c, FALSE, None)

\* ArrowLeft and Backspace share one body
handle_key_ArrowLeft(c, cur) ==
    IF is_some(c.search_partial)
    THEN IF cur < last_line_offset(c) + SEARCH_PROMPT_SLOT_OFF + 2
         THEN hk(c, TRUE, None) ELSE hk(c, FALSE, None)
    ELSE IF cur < last_line_offset(c) + Len(c.prompt) + 1
         THEN hk(c, TRUE, None) ELSE hk(c, FALSE, None)

handle_key_Backspace(c, cur) == handle_key_ArrowLeft(c, cur)

\* Escape that keeps the browsing cursor
escape_keeping_cursor(c) == hk(c, TRUE, None)

\* Escape once search mode is left
escape(c) ==
    IF c.panicked THEN hk(c, TRUE, None) ELSE hk([c EXCEPT !.history_cursor = None], TRUE, None)

handle_key_Escape(c) == escape(leave_search(c))

\* Ctrl-R whose scan in search mode starts at the newest entry again
handle_key_CtrlR_restarting(c) ==
    IF ~is_some(c.search_partial)
    THEN hk(enter_search_mode([c EXCEPT !.search_partial = Some(<<>>)]), TRUE, None)
    ELSE hk(history_back([c EXCEPT !.history_cursor = None]), TRUE, None)

handle_key_CtrlR(c) ==
    IF ~is_some(c.search_partial)
    THEN hk(enter_search_mode([c EXCEPT !.search_partial = Some(<<>>)]), TRUE, None)
    ELSE hk(history_back(c), TRUE, None)

\* handle_key that consumes the keys it has no arm for
handle_key_consuming_others(c, key, cur) ==
    CASE key = "ArrowDown"  -> handle_key_ArrowDown(c)
      [] key = "ArrowUp"    -> handle_key_ArrowUp(c)
      [] key = "Enter"      -> handle_key_Enter(c)
      [] key = "Delete"     -> handle_key_Delete(c, cur)
      [] key = "ArrowRight" -> handle_key_ArrowRight(c, cur)
      [] key = "ArrowLeft"  -> handle_key_ArrowLeft(c, cur)
      [] key = "Backspace"  -> handle_key_Backspace(c, cur)
      [] key = "Escape"     -> handle_key_Escape(c)
      [] key = "CtrlR"      -> handle_key_CtrlR(c)
      [] key = "Tab"        -> handle_key_Tab(c)
      [] OTHER              -> hk(c, TRUE, None)

handle_key(c, key, cur) ==
    CASE key = "ArrowDown"  -> handle_key_ArrowDown(c)
      [] key = "ArrowUp"    -> handle_key_ArrowUp(c)
      [] key = "Enter"      -> handle_key_Enter(c)
      [] key = "Delete"     -> handle_key_Delete(c, cur)
      [] key = "ArrowRight" -> handle_key_ArrowRight(c, cur)
      [] key = "ArrowLeft"  -> handle_key_ArrowLeft(c, cur)
      [] key = "Backspace"  -> handle_key_Backspace(c, cur)
      [] key = "Escape"     -> handle_key_Escape(c)
      [] key = "CtrlR"      -> handle_key_CtrlR(c)
      [] key = "Tab"        -> handle_key_Tab(c)
      [] OTHER              -> hk(c, FALSE, None)

\* handle_kb: the frame's key event goes through handle_key
handle_kb(c, cur, ev) ==
    IF ev.kind = "key" THEN handle_key(c, ev.key, cur) ELSE hk(c, FALSE, None)

\* -------------------------------------------------------------------- draw
Min(a, b) == IF a < b THEN a ELSE b

\* cursor_at: a location at or past the end of the text is the end
cursor_at(c, loc) == IF loc >= Len(c.text) THEN Len(c.text) ELSE loc

\* What the TextEdit widget does, its cursor at wc, with the frame's input:
\* a typed character is inserted at the cursor, a mouse click places the
\* cursor, and a key handle_key did not consume has its editing effect.
\* ev = [kind |-> "key" | "text" | "click" | "idle", key, ch, pos]
widget_edit(t, wc, ev, kill) ==
    CASE ev.kind = "text" ->
           [text |-> SubSeq(t, 1, wc) \o <<ev.ch>> \o SubSeq(t, wc + 1, Len(t)), cursor |-> wc + 1]
      [] ev.kind = "click" -> [text |-> t, cursor |-> Min(ev.pos, Len(t))]
      [] ev.kind = "key" /\ ~kill /\ ev.key = "ArrowLeft" ->
           [text |-> t, cursor |-> IF wc > 0 THEN wc - 1 ELSE 0]
      [] ev.kind = "key" /\ ~kill /\ ev.key = "ArrowRight" ->
           [text |-> t, cursor |-> Min(wc + 1, Len(t))]
      [] ev.kind = "key" /\ ~kill /\ ev.key = "Backspace" /\ wc > 0 ->
           [text |-> SubSeq(t, 1, wc - 1) \o SubSeq(t, wc + 1, Len(t)), cursor |-> wc - 1]
      [] ev.kind = "key" /\ ~kill /\ ev.key = "Delete" /\ wc < Len(t) ->
           [text |-> SubSeq(t, 1, wc) \o SubSeq(t, wc + 2, Len(t)), cursor |-> wc]
      [] OTHER -> [text |-> t, cursor |-> wc]

\* the widget keeps its cursor inside the text
widget_show(t, cur, ev, kill) == widget_edit(t, Min(cur, Len(t)), ev, kill)

\* last_off + self.prompt_len - 1 in usize: the subtraction underflows at 0
bound_underflows(c) == last_line_offset(c) + c.prompt_len = 0

\* cursor.primary.index < last_off + self.prompt_len - 1; a wrapped bound is
\* usize::MAX, which every index is below
below_bound(c, wcur) ==
    IF bound_underflows(c) THEN TRUE ELSE wcur < last_line_offset(c) + c.prompt_len - 1

\* the cursor fix-up of ui, the widget's cursor being at wcur; a build with
\* overflow checks panics where the bound underflows;
\* the result is [c |-> console, cursor |-> widget cursor]
fix_cursor(c, wcur) ==
    IF is_some(c.search_partial)
    THEN IF wcur < last_line_offset(c) + SEARCH_PROMPT_SLOT_OFF + 1
         THEN [c |-> c, cursor |-> cursor_at(c, last_line_offset(c) + SEARCH_PROMPT_SLOT_OFF + 1)]
         ELSE IF wcur > last_line_offset(c) + Len(SEARCH_PROMPT) + Len(get_search_text(c))
              THEN [c |-> c, cursor |-> cursor_at(c, last_line_offset(c) + SEARCH_PROMPT_SLOT_OFF
                                                     + Len(get_search_text(c)) + 1)]
              ELSE [c |-> c, cursor |-> wcur]
    ELSE IF bound_underflows(c) /\ c.overflow_checks
         THEN [c |-> [c EXCEPT !.panicked = TRUE], cursor |-> wcur]
         ELSE IF c.force_cursor_to_end
         THEN [c |-> [c EXCEPT !.force_cursor_to_end = FALSE], cursor |-> Len(c.text)]
         ELSE IF below_bound(c, wcur)
              THEN [c |-> c, cursor |-> Len(c.text)]
              ELSE [c |-> c, cursor |-> wcur]

\* ui once the widget has shown w = [text, cursor]
ui_shown(c, w) == fix_cursor([c EXCEPT !.text = w.text], w.cursor)

\* ui: show the widget, then fix up the cursor
ui(c, cur, ev, kill) == ui_shown(c, widget_show(c.text, cur, ev, kill))

\* the prompt of search mode with the query spliced in at the slot
search_prompt_with(q) ==
    SubSeq(SEARCH_PROMPT, 1, SEARCH_PROMPT_SLOT_OFF + 1) \o q
        \o SubSeq(SEARCH_PROMPT, SEARCH_PROMPT_SLOT_OFF + 2, Len(SEARCH_PROMPT))

\* self.tab_string.clear(); self.tab_nth = 0
tab_clear(c) == [c EXCEPT !.tab_string = <<>>, !.tab_nth = 0]

\* after_typing that scans on from the browsing cursor
after_typing_continuing(c, text_len) ==
    IF Len(c.text) = text_len THEN c
    ELSE IF is_some(c.search_partial)
    THEN tab_clear(history_back([c EXCEPT !.search_partial = Some(get_search_text(c)),
                                          !.prompt = search_prompt_with(get_search_text(c))]))
    ELSE tab_clear(c)

\* "did somebody type?": the part of draw after ui
after_typing(c, text_len) ==
    IF Len(c.text) = text_len THEN c
    ELSE IF is_some(c.search_partial)
    THEN tab_clear(history_back([c EXCEPT !.search_partial = Some(get_search_text(c)),
                                          !.prompt = search_prompt_with(get_search_text(c)),
                                          !.history_cursor = None]))
    ELSE tab_clear(c)

\* the first draw restores a saved prompt and draws the prompt
draw_init(c) ==
    IF c.init_done THEN c
    ELSE IF is_some(c.save_prompt)
         THEN draw_prompt([c EXCEPT !.init_done = TRUE, !.prompt = c.save_prompt[1],
                                    !.save_prompt = None])
         ELSE draw_prompt([c EXCEPT !.init_done = TRUE])

\* draw after ui returned u, handle_kb having returned k
draw_typed(k, u) ==
    [c |-> IF u.c.panicked THEN u.c ELSE after_typing(u.c, Len(k.c.text)),
     cursor |-> u.cursor, kill |-> k.kill, cmd |-> k.cmd]

\* draw after handle_kb returned k
draw_ui(k, cur, ev) ==
    IF k.c.panicked THEN [c |-> k.c, cursor |-> cur, kill |-> k.kill, cmd |-> k.cmd]
    ELSE draw_typed(k, ui(k.c, cur, ev, k.kill))

\* one frame: [c |-> console, cursor |-> widget cursor, kill, cmd]
draw(c, cur, ev) == draw_ui(handle_kb(draw_init(c), cur, ev), cur, ev)

\* ---------------------------------------------- frames with several events
\* the loop of handle_kb over the events of one frame, from event i on, the
\* cursor read once before the loop: [c |-> console, kills |-> the keys of
\* kill_list, cmd |-> command]; the loop breaks at the first command
RECURSIVE kb_loop(_, _, _, _, _)
RECURSIVE kb_step(_, _, _, _, _, _)
kb_loop(c, cur, evs, i, kills) ==
    IF i > Len(evs) \/ c.panicked THEN [c |-> c, kills |-> kills, cmd |-> None]
    ELSE IF evs[i].kind # "key" THEN kb_loop(c, cur, evs, i + 1, kills)
    ELSE kb_step(handle_key(c, evs[i].key, cur), cur, evs, i, kills,
                 IF handle_key(c, evs[i].key, cur).kill THEN {evs[i].key} ELSE {})

\* handle_key returned r for event i
kb_step(r, cur, evs, i, kills, killed) ==
    IF is_some(r.cmd) THEN [c |-> r.c, kills |-> kills \cup killed, cmd |-> r.cmd]
    ELSE kb_loop(r.c, cur, evs, i + 1, kills \cup killed)

\* Input::consume_key takes every press of a killed key out of the queue;
\* the widget then handles the events that are left, in order
RECURSIVE widget_events(_, _, _, _)
widget_events(w, evs, i, kills) ==
    IF i > Len(evs) THEN w
    ELSE widget_events(widget_edit(w.text, w.cursor, evs[i],
                                   evs[i].kind = "key" /\ evs[i].key \in kills),
                       evs, i + 1, kills)

\* ui with the events of the frame
ui_events(c, cur, evs, kills) ==
    ui_shown(c, widget_events([text |-> c.text, cursor |-> Min(cur, Len(c.text))], evs, 1, kills))

\* draw after the loop of handle_kb returned b
draw_kb_events(b, cur, evs) ==
    IF b.c.panicked THEN [c |-> b.c, cursor |-> cur, kill |-> b.kills # {}, cmd |-> b.cmd]
    ELSE draw_typed(hk(b.c, b.kills # {}, b.cmd), ui_events(b.c, cur, evs, b.kills))

\* one frame with the events evs queued
draw_events(c, cur, evs) == draw_kb_events(kb_loop(draw_init(c), cur, evs, 1, {}), cur, evs)

\* ------------------------------------------------------- public operations
\* write_styled: the text is appended as it is, with its style span
write_styled(c, data, style) ==
    [push_styled(c, c.text, data, style) EXCEPT !.force_cursor_to_end = TRUE]

\* write without the scrollback check
write_unchecked(c, data) ==
    [c EXCEPT !.text = c.text \o <<NL>> \o data, !.force_cursor_to_end = TRUE]

\* write: "\n" + data is appended, then the scrollback check
write(c, data) ==
    [truncate_scroll_back([c EXCEPT !.text = c.text \o <<NL>> \o data])
        EXCEPT !.force_cursor_to_end = TRUE]

load_history(c, h) == [c EXCEPT !.command_history = h, !.history_cursor = None]

\* clear_history that keeps the browsing cursor
clear_history_keeping_cursor(c) == [c EXCEPT !.command_history = <<>>]

clear_history(c) == [c EXCEPT !.command_history = <<>>, !.history_cursor = None]

\* clear that keeps the style spans
clear_keeping_styles(c) == [c EXCEPT !.text = <<>>, !.force_cursor_to_end = FALSE]

clear(c) == [c EXCEPT !.text = <<>>, !.styled_segments = <<>>, !.force_cursor_to_end = FALSE]

\* --------------------------------------------------------- koto scripting
KOTO_PREFIX == <<"k", "o", "t", "o", ">">>

KOTO_ENABLED_MSG ==
    <<"K", "o", "t", "o", " ", "s", "c", "r", "i", "p", "t", "i", "n", "g",
      " ", "m", "o", "d", "e", " ", "e", "n", "a", "b", "l", "e", "d", ".",
      " ", "C", "o", "m", "m", "a", "n", "d", "s", " ", "s", "t", "a", "r",
      "t", "i", "n", "g", " ", "w", "i", "t", "h", " ", "'", "k", "o", "t",
      "o", ">", "'", " ", "w", "i", "l", "l", " ", "b", "e", " ", "e", "x",
      "e", "c", "u", "t", "e", "d", " ", "a", "s", " ", "K", "o", "t", "o",
      " ", "s", "c", "r", "i", "p", "t", "s", ".", "\n">>

KOTO_DISABLED_MSG ==
    <<"K", "o", "t", "o", " ", "s", "c", "r", "i", "p", "t", "i", "n", "g",
      " ", "m", "o", "d", "e", " ", "d", "i", "s", "a", "b", "l", "e", "d",
      ".", "\n">>

\* TerminalTheme::default, as far as the commands of a script change it
DefaultTheme == [background |-> "default", foreground |-> "default", preset |-> "default"]

write_info(c, data) == write_styled(c, data, "info")

enable_koto(c) ==
    write_info([c EXCEPT !.koto_runtime = TRUE, !.koto_mode = TRUE], KOTO_ENABLED_MSG)

disable_koto(c) == write_info([c EXCEPT !.koto_mode = FALSE], KOTO_DISABLED_MSG)

\* A script, as far as the console sees it: the commands its calls of
\* set_theme, write_styled and clear_console queue before it ends, and
\* whether compile_and_run then returns an error:
\* [emits |-> commands, fails |-> BOOLEAN]

\* KotoRuntime::execute: the queue is cleared, the script runs
execute(c, script) == [c EXCEPT !.egui_commands = script.emits]

\* one command of the loop of execute_koto
apply_command(c, command) ==
    CASE command.kind = "SetTheme" ->
           [c EXCEPT !.theme.background = command.background,
                     !.theme.foreground = command.foreground]
      [] command.kind = "SetFullTheme" -> [c EXCEPT !.theme = command.theme]
      [] command.kind = "WriteLine" ->
           IF command.style \in {"error", "success", "warning", "info"}
           THEN write_styled(c, command.text, command.style)
           ELSE write(c, command.text)
      [] command.kind = "ClearConsole" -> clear(c)
      [] command.kind = "SetWindowTitle" -> c

\* for command in commands
RECURSIVE apply_commands(_, _)
apply_commands(c, commands) ==
    IF commands = <<>> THEN c
    ELSE apply_commands(apply_command(c, Head(commands)), Tail(commands))

\* get_egui_commands that leaves the queue as it is
drain_keeping(c, commands) ==
    [c |-> apply_commands(c, commands), ok |-> TRUE, commands |-> commands]

\* get_egui_commands (std::mem::take) and the loop over what it returned
drain(c, commands) ==
    [c |-> apply_commands([c EXCEPT !.egui_commands = <<>>], commands),
     ok |-> TRUE, commands |-> commands]

\* execute_koto: [c |-> console, ok |-> Ok or Err, commands |-> the commands applied]
execute_koto(c, script) ==
    IF ~c.koto_runtime THEN [c |-> c, ok |-> FALSE, commands |-> <<>>]
    ELSE IF script.fails THEN [c |-> execute(c, script), ok |-> FALSE, commands |-> <<>>]
    ELSE drain(execute(c, script), execute(c, script).egui_commands)

\* the script that queues nothing and ends well
NoScript == [emits |-> <<>>, fails |-> FALSE]

\* ConsoleEvent
NoEvent == [kind |-> "None", text |-> <<>>]

\* the event of a console that looks at the prefix only
console_event_by_prefix(c, command) ==
    IF ~is_some(command) THEN NoEvent
    ELSE IF starts_with(command[1], KOTO_PREFIX)
    THEN [kind |-> "KotoScript",
          text |-> trim(unwrap_or(strip_prefix(command[1], KOTO_PREFIX), command[1]))]
    ELSE [kind |-> "Command", text |-> command[1]]

\* the event handle_kb returns for the command of the frame
console_event(c, command) ==
    IF ~is_some(command) THEN NoEvent
    ELSE IF c.koto_mode \/ starts_with(command[1], KOTO_PREFIX)
    THEN [kind |-> "KotoScript",
          text |-> IF starts_with(command[1], KOTO_PREFIX)
                   THEN trim(unwrap_or(strip_prefix(command[1], KOTO_PREFIX), command[1]))
                   ELSE command[1]]
    ELSE [kind |-> "Command", text |-> command[1]]

\* --------------------------------------------------------------- search.rs
\* A String is a sequence of characters; len(), find() and the slices of
\* calculate_score count bytes, and "\u{e9}" (written E_ACUTE) takes two
E_ACUTE == "e'"

len_utf8(ch) == IF ch = E_ACUTE THEN 2 ELSE 1

\* str::len: the bytes of s
RECURSIVE byte_len(_)
byte_len(s) == IF s = <<>> THEN 0 ELSE len_utf8(Head(s)) + byte_len(Tail(s))

\* the byte offset at which character j of s starts (j = Len(s) + 1: the end)
byte_at(s, j) == byte_len(SubSeq(s, 1, j - 1))

\* str::is_char_boundary
is_char_boundary(s, b) == \E j \in 1..(Len(s) + 1) : byte_at(s, j) = b

lower_char(ch) == IF ch = "A" THEN "a" ELSE IF ch = "B" THEN "b" ELSE ch

\* str::to_lowercase
to_lowercase(s) == [i \in 1..Len(s) |-> lower_char(s[i])]

\* str::find: the byte offset of the first occurrence of q in s (q occurs in s)
find(s, q) ==
    byte_at(s, CHOOSE j \in 1..(Len(s) + 1) :
                  /\ SubSeq(s, j, j + Len(q) - 1) = q
                  /\ \A k \in 1..(j - 1) : SubSeq(s, k, k + Len(q) - 1) # q)

\* the characters of s from byte offset b on (b is a character boundary)
slice_from(s, b) == SubSeq(s, CHOOSE j \in 1..(Len(s) + 1) : byte_at(s, j) = b, Len(s))

\* the first i with (i, c_char) in rest.char_indices() and c_char = q_char, -1 when there is none
first_index(rest, q_char) ==
    IF \E j \in 1..Len(rest) : rest[j] = q_char
    THEN byte_at(rest, CHOOSE j \in 1..Len(rest) :
                           rest[j] = q_char /\ \A k \in 1..(j - 1) : rest[k] # q_char)
    ELSE -1

\* the loop over query_lower.chars() from character k on:
\* [panic |-> the slice command_lower[last_found..] is off a character boundary,
\*  all_found, last_found]
RECURSIVE fuzzy_loop(_, _, _, _)
fuzzy_loop(query_lower, command_lower, k, last_found) ==
    IF k > Len(query_lower)
    THEN [panic |-> FALSE, all_found |-> TRUE, last_found |-> last_found]
    ELSE IF ~is_char_boundary(command_lower, last_found)
    THEN [panic |-> TRUE, all_found |-> FALSE, last_found |-> last_found]
    ELSE IF first_index(slice_from(command_lower, last_found), query_lower[k]) < 0
    THEN [panic |-> FALSE, all_found |-> FALSE, last_found |-> last_found]
    ELSE fuzzy_loop(query_lower, command_lower, k + 1,
                    last_found + first_index(slice_from(command_lower, last_found),
                                             query_lower[k]) + 1)

\* the score of the fuzzy branch, given the outcome of its loop
fuzzy_score(f, command) ==
    [panic |-> f.panic,
     num |-> IF f.all_found THEN 40 * byte_len(command) - 30 * f.last_found ELSE 0,
     den |-> 100 * byte_len(command)]

\* calculate_score with the lowered strings at hand. The f32 score is the
\* fraction num / den: 1.0, 0.9, 0.5 + 0.4 * (1 - min(position / len, 0.9))
\* and 0.1 + 0.3 * (1 - last_found / len), each over den = 100 * command.len()
score_of(query_lower, command_lower, command) ==
    IF command_lower = query_lower
    THEN [panic |-> FALSE, num |-> 100 * byte_len(command), den |-> 100 * byte_len(command)]
    ELSE IF starts_with(command_lower, query_lower)
    THEN [panic |-> FALSE, num |-> 90 * byte_len(command), den |-> 100 * byte_len(command)]
    ELSE IF contains(command_lower, query_lower)
    THEN [panic |-> FALSE,
          num |-> 90 * byte_len(command)
                  - Min(40 * find(command_lower, query_lower), 36 * byte_len(command)),
          den |-> 100 * byte_len(command)]
    ELSE fuzzy_score(fuzzy_loop(query_lower, command_lower, 1, 0), command)

calculate_score(query, command) == score_of(to_lowercase(query), to_lowercase(command), command)

\* a.score >= b.score
score_ge(a, b) == a.num * b.den >= b.num * a.den

\* results.sort_by(|a, b| b.score.partial_cmp(&a.score)): stable, highest first
RECURSIVE insert_by_score(_, _)
insert_by_score(sorted, r) ==
    IF sorted = <<>> THEN <<r>>
    ELSE IF score_ge(sorted[1].score, r.score)
    THEN <<sorted[1]>> \o insert_by_score(Tail(sorted), r)
    ELSE <<r>> \o sorted

RECURSIVE sort_by_score(_)
sort_by_score(rs) ==
    IF rs = <<>> THEN <<>>
    ELSE insert_by_score(sort_by_score(SubSeq(rs, 1, Len(rs) - 1)), rs[Len(rs)])

\* the filter_map over the history: the entries whose score is above 0
RECURSIVE scored(_, _)
scored(query, history) ==
    IF history = <<>> THEN <<>>
    ELSE (IF calculate_score(query, Head(history)).num > 0
          THEN <<[command |-> Head(history), score |-> calculate_score(query, Head(history))]>>
          ELSE <<>>) \o scored(query, Tail(history))

commands_of(rs) == [i \in 1..Len(rs) |-> rs[i].command]

\* SearchEngine::search on a fresh engine (its cache is empty):
\* [panic |-> calculate_score panicked, results |-> the commands found]
search(query, history) ==
    IF query = <<>> THEN [panic |-> FALSE, results |-> history]
    ELSE IF \E i \in 1..Len(history) : calculate_score(query, history[i]).panic
    THEN [panic |-> TRUE, results |-> <<>>]
    ELSE [panic |-> FALSE, results |-> commands_of(sort_by_score(scored(query, history)))]

\* enhanced_search: a new engine searches get_history()
enhanced_search(c, query) == search(query, c.command_history)

\* ---------------------------------------------------------------- actions
\* Nothing in console.rs reads the style spans back into the text, the
\* history, the prompt or the cursor; only the sessions about the spans
\* (keep_styles) record the list, the others leave it out of their state
Kept(segments) == IF keep_styles THEN segments ELSE <<>>

Assign(c) ==
    /\ text' = c.text
    /\ force_cursor_to_end' = c.force_cursor_to_end
    /\ history_size' = c.history_size
    /\ scrollback_size' = c.scrollback_size
    /\ command_history' = c.command_history
    /\ history_cursor' = c.history_cursor
    /\ prompt' = c.prompt
    /\ prompt_len' = c.prompt_len
    /\ save_prompt' = c.save_prompt
    /\ search_partial' = c.search_partial
    /\ init_done' = c.init_done
    /\ styled_segments' = Kept(c.styled_segments)
    /\ panicked' = c.panicked
    /\ keep_styles' = keep_styles
    /\ overflow_checks' = overflow_checks
    /\ tab_string' = c.tab_string
    /\ tab_nth' = c.tab_nth
    /\ koto_runtime' = c.koto_runtime
    /\ koto_mode' = c.koto_mode
    /\ egui_commands' = c.egui_commands
    /\ theme' = c.theme
    /\ UNCHANGED <<aliases, command_structure, tab_command_table, input, suggestions>>
    /\ UNCHANGED <<INSTANCE_COUNT, id, first_id, built>>

\* the bits of INSTANCE_COUNT, an AtomicU16
COUNTER_BITS == 16

\* AtomicU16::fetch_add: the counter after adding n, wrapping around
fetch_add(count, n) == (count + n) % (2 ^ COUNTER_BITS)

\* ConsoleBuilder::build with the given prompt, history_size and scrollback_size
BuiltWith(p, hs, ss) ==
    /\ text = <<>>
    /\ force_cursor_to_end = FALSE
    /\ history_size = hs
    /\ scrollback_size = ss
    /\ command_history = <<>>
    /\ history_cursor = None
    /\ prompt = p
    /\ prompt_len = Len(p)
    /\ save_prompt = None
    /\ search_partial = None
    /\ init_done = FALSE
    /\ styled_segments = <<>>
    /\ cursor = 0
    /\ panicked = FALSE
    /\ op = "new"
    /\ ret = <<FALSE, None>>
    /\ was_searching = FALSE
    /\ written = <<>>
    /\ aliases = EmptyMap
    /\ command_structure = EmptyMap
    /\ tab_command_table = <<>>
    /\ input = <<>>
    /\ suggestions = <<>>
    /\ tab_string = <<>>
    /\ tab_nth = 0
    /\ id = 0
    /\ INSTANCE_COUNT = fetch_add(0, 1)
    /\ first_id = 0
    /\ built = 1
    /\ koto_runtime = FALSE
    /\ koto_mode = FALSE
    /\ egui_commands = <<>>
    /\ theme = DefaultTheme
    /\ applied = <<>>
    /\ koto_ok = TRUE
    /\ koto_script = NoScript
    /\ event = NoEvent

\* the build wraps on integer overflow (no session built this way overflows)
Wrapping == overflow_checks = FALSE

Built(p, hs) == BuiltWith(p, hs, ScrollbackSize) /\ keep_styles = FALSE /\ Wrapping

\* a console that keeps no history, or one that keeps the most
Init == \E hs \in {0, MaxHistSize} : Built(DefaultPrompt, hs)

\* the least and greatest cursor offsets at which the user edits the line
min_offset(c) ==
    IF is_some(c.search_partial)
    THEN last_line_offset(c) + SEARCH_PROMPT_SLOT_OFF + 1
    ELSE last_line_offset(c) + Len(c.prompt)

max_offset(c) ==
    IF is_some(c.search_partial)
    THEN Min(Len(c.text), last_line_offset(c) + Len(SEARCH_PROMPT) + Len(get_search_text(c)))
    ELSE Len(c.text)

\* the user edits and moves only with the cursor in the line being edited
InWindow == init_done /\ min_offset(Self) <= cursor /\ cursor <= max_offset(Self)

\* the part of the last line that is not the prompt (less its query)
typed_after(line, lead) ==
    IF starts_with(line, lead) THEN Len(line) - Len(lead) ELSE Len(line)

typed_len(c) ==
    typed_after(last_of(c.text),
                IF is_some(c.search_partial)
                THEN SubSeq(SEARCH_PROMPT, 1, SEARCH_PROMPT_SLOT_OFF + 1) ELSE c.prompt)

\* the most the frames below let the user put on the line:
\* a query of maxq characters, the colon, and maxl more
typed_cap(c, maxq, maxl) == IF is_some(c.search_partial) THEN maxq + 1 + maxl ELSE maxl

\* the user types while the query and the line being edited are short enough
CanType(maxq, maxl) ==
    /\ typed_len(Self) < typed_cap(Self, maxq, maxl)
    /\ is_some(search_partial) =>
          IF cursor <= last_line_offset(Self) + SEARCH_PROMPT_SLOT_OFF + 1 + Len(get_search_text(Self))
          THEN Len(get_search_text(Self)) < maxq
          ELSE typed_len(Self) < Len(get_search_text(Self)) + 1 + maxl

\* a frame in which the event ev arrives
Returned(d, name) ==
    /\ Assign(d.c)
    /\ cursor' = d.cursor
    /\ ret' = <<d.kill, d.cmd>>
    /\ op' = name
    /\ was_searching' = is_some(search_partial)
    /\ event' = console_event(d.c, d.cmd)
    /\ UNCHANGED <<written, applied, koto_ok, koto_script>>

Frame(ev, name, maxq, maxl) ==
    /\ ~panicked
    /\ typed_len(Self) <= typed_cap(Self, maxq, maxl)
    /\ Returned(draw(Self, cursor, ev), name)

\* a call of the host between two frames
Called(c, name) ==
    /\ ~panicked
    /\ Assign(c)
    /\ op' = name
    /\ ret' = <<FALSE, None>>
    /\ was_searching' = is_some(search_partial)
    /\ event' = NoEvent
    /\ UNCHANGED cursor

Call(c, name) == Called(c, name) /\ UNCHANGED <<written, applied, koto_ok, koto_script>>

KeyEv(k) == [kind |-> "key", key |-> k, ch |-> "", pos |-> 0]

TextEv(ch) == [kind |-> "text", key |-> "", ch |-> ch, pos |-> 0]

IdleEv == [kind |-> "idle", key |-> "", ch |-> "", pos |-> 0]

KeyArrowDown == Frame(KeyEv("ArrowDown"), "ArrowDown", MaxQuery, MaxLine)

KeyArrowUp == Frame(KeyEv("ArrowUp"), "ArrowUp", MaxQuery, MaxLine)

KeyEnter == Frame(KeyEv("Enter"), "Enter", MaxQuery, MaxLine)

KeyBackspace == InWindow /\ Frame(KeyEv("Backspace"), "Backspace", MaxQuery, MaxLine)

KeyEscape == Frame(KeyEv("Escape"), "Escape", MaxQuery, MaxLine)

KeyCtrlR == Frame(KeyEv("CtrlR"), "CtrlR", MaxQuery, MaxLine)

TypeChar ==
    /\ InWindow
    /\ CanType(MaxQuery, MaxLine)
    /\ \E ch \in Alphabet : Frame(TextEv(ch), "Type", MaxQuery, MaxLine)

\* a frame without input
Idle == Frame(IdleEv, "Idle", MaxQuery, MaxLine)

\* the host writes, prompts and clears between commands, not during a search
Write ==
    /\ search_partial = None
    /\ lines_count(text) < MaxLines
    /\ \E data \in WriteData : Call(write(Self, data), "write")

Prompt ==
    /\ search_partial = None
    /\ lines_count(text) < MaxLines
    /\ Call(draw_prompt(Self), "prompt")

Clear == search_partial = None /\ Call(clear(Self), "clear")

LoadHistory == \E h \in Histories : Call(load_history(Self, h), "load_history")

ClearHistory == Call(clear_history(Self), "clear_history")

Next ==
    \/ KeyArrowDown
    \/ KeyArrowUp
    \/ KeyEnter
    \/ KeyBackspace
    \/ KeyEscape
    \/ KeyCtrlR
    \/ TypeChar
    \/ Idle
    \/ Write
    \/ Prompt
    \/ Clear
    \/ LoadHistory
    \/ ClearHistory

Spec == Init /\ [][Next]_vars

\* ---- the search sessions: one line, a loaded history, no commits
SearchLen == Len(abc)

InitSearch == \E p \in Prompts : Built(p, SearchHistSize)

SearchLoadHistory == \E h \in SearchHistories : Call(load_history(Self, h), "load_history")

SearchIdle == Frame(IdleEv, "Idle", SearchMaxQuery, SearchLen)

SearchCtrlR == Frame(KeyEv("CtrlR"), "CtrlR", SearchMaxQuery, SearchLen)

SearchEscape == Frame(KeyEv("Escape"), "Escape", SearchMaxQuery, SearchLen)

SearchArrowUp == Frame(KeyEv("ArrowUp"), "ArrowUp", SearchMaxQuery, SearchLen)

SearchArrowDown == Frame(KeyEv("ArrowDown"), "ArrowDown", SearchMaxQuery, SearchLen)

SearchArrowLeft == InWindow /\ Frame(KeyEv("ArrowLeft"), "ArrowLeft", SearchMaxQuery, SearchLen)

SearchArrowRight == InWindow /\ Frame(KeyEv("ArrowRight"), "ArrowRight", SearchMaxQuery, SearchLen)

SearchBackspace == InWindow /\ Frame(KeyEv("Backspace"), "Backspace", SearchMaxQuery, SearchLen)

SearchDelete == InWindow /\ Frame(KeyEv("Delete"), "Delete", SearchMaxQuery, SearchLen)

\* key and modifier combinations handle_key has no arm for
OtherKeys == {"F1", "ShiftEnter", "CtrlA", "AltArrowUp"}

SearchOther == \E k \in OtherKeys : Frame(KeyEv(k), "Other", SearchMaxQuery, SearchLen)

SearchType ==
    /\ InWindow
    /\ is_some(search_partial)
    /\ CanType(SearchMaxQuery, SearchLen)
    /\ \E ch \in SearchAlphabet : Frame(TextEv(ch), "Type", SearchMaxQuery, SearchLen)

NextSearch ==
    \/ SearchLoadHistory
    \/ SearchIdle
    \/ SearchCtrlR
    \/ SearchEscape
    \/ SearchArrowUp
    \/ SearchArrowDown
    \/ SearchArrowLeft
    \/ SearchArrowRight
    \/ SearchBackspace
    \/ SearchDelete
    \/ SearchOther
    \/ SearchType

SpecSearch == InitSearch /\ [][NextSearch]_vars

\* ---- the editing sessions: normal mode, the mouse places the cursor anywhere
InitEdit == \E p \in Prompts : Built(p, 0)

ClickEv(pos) == [kind |-> "click", key |-> "", ch |-> "", pos |-> pos]

\* a frame of an editing session
EditFrame(ev, name) == ~panicked /\ Returned(draw(Self, cursor, ev), name)

EditIdle == EditFrame(IdleEv, "Idle")

EditClick == \E pos \in 0..Len(text) : EditFrame(ClickEv(pos), "Click")

EditType ==
    /\ init_done
    /\ Len(last_of(text)) < Len(prompt) + MaxLine
    /\ \E ch \in Alphabet : EditFrame(TextEv(ch), "Type")

EditArrowLeft == EditFrame(KeyEv("ArrowLeft"), "ArrowLeft")

EditArrowRight == EditFrame(KeyEv("ArrowRight"), "ArrowRight")

EditBackspace == EditFrame(KeyEv("Backspace"), "Backspace")

EditDelete == EditFrame(KeyEv("Delete"), "Delete")

\* the host prompts once more after the first line
EditPrompt ==
    /\ init_done
    /\ find_nl(text) = 0
    /\ Len(text) <= Len(prompt) + MaxLine
    /\ Call(draw_prompt(Self), "prompt")

NextEdit ==
    \/ EditIdle
    \/ EditClick
    \/ EditType
    \/ EditArrowLeft
    \/ EditArrowRight
    \/ EditBackspace
    \/ EditDelete
    \/ EditPrompt

SpecEdit == InitEdit /\ [][NextEdit]_vars

\* ---- the batch sessions: two key events arrive in one frame
InitBatch == \E hs \in {0, MaxHistSize} : Built(DefaultPrompt, hs)

\* a frame in which the events evs arrive together
BatchFrame(evs, name) ==
    /\ ~panicked
    /\ typed_len(Self) <= typed_cap(Self, 0, MaxLine)
    /\ Returned(draw_events(Self, cursor, evs), name)

BatchIdle == BatchFrame(<<>>, "Idle")

BatchType ==
    /\ InWindow
    /\ CanType(0, MaxLine)
    /\ \E ch \in Alphabet : BatchFrame(<<TextEv(ch)>>, "Type")

BatchEnter == BatchFrame(<<KeyEv("Enter")>>, "Enter")

BatchEnterEnter == BatchFrame(<<KeyEv("Enter"), KeyEv("Enter")>>, "Enter+Enter")

BatchEnterBackspace == BatchFrame(<<KeyEv("Enter"), KeyEv("Backspace")>>, "Enter+Backspace")

BatchEnterArrowLeft == BatchFrame(<<KeyEv("Enter"), KeyEv("ArrowLeft")>>, "Enter+ArrowLeft")

BatchEscapeEnter == BatchFrame(<<KeyEv("Escape"), KeyEv("Enter")>>, "Escape+Enter")

BatchPrompt == lines_count(text) < MaxLines /\ Call(draw_prompt(Self), "prompt")

NextBatch ==
    \/ BatchIdle
    \/ BatchType
    \/ BatchEnter
    \/ BatchEnterEnter
    \/ BatchEnterBackspace
    \/ BatchEnterArrowLeft
    \/ BatchEscapeEnter
    \/ BatchPrompt

SpecBatch == InitBatch /\ [][NextBatch]_vars

\* ---- the styling sessions: the style spans are recorded; no typing
InitStyle == BuiltWith(DefaultPrompt, 0, ScrollbackSize) /\ keep_styles = TRUE /\ Wrapping

\* there is room for the span the step may push
StyleRoom == Len(styled_segments) < MaxSpans

StyleIdle == StyleRoom /\ Frame(IdleEv, "Idle", 0, MaxLine)

StyleEnter == StyleRoom /\ Frame(KeyEv("Enter"), "Enter", 0, MaxLine)

StyleCtrlR == StyleRoom /\ Frame(KeyEv("CtrlR"), "CtrlR", 0, MaxLine)

StyleEscape == StyleRoom /\ Frame(KeyEv("Escape"), "Escape", 0, MaxLine)

StyleArrowUp == StyleRoom /\ Frame(KeyEv("ArrowUp"), "ArrowUp", 0, MaxLine)

\* the host writes and prompts between commands, not during a search
StyleWrite ==
    /\ search_partial = None
    /\ \E data \in WriteData : Call(write(Self, data), "write")

\* styled text goes on lines that hold less than MaxLine characters after the prompt
StyleWriteStyled ==
    /\ StyleRoom
    /\ search_partial = None
    /\ Len(last_of(text)) < Len(prompt) + MaxLine
    /\ \E data \in WriteData : Call(write_styled(Self, data, "error"), "write_styled")

StylePrompt == StyleRoom /\ search_partial = None /\ Call(draw_prompt(Self), "prompt")

StyleClear == Call(clear(Self), "clear")

NextStyle ==
    \/ StyleIdle
    \/ StyleEnter
    \/ StyleCtrlR
    \/ StyleEscape
    \/ StyleArrowUp
    \/ StyleWrite
    \/ StyleWriteStyled
    \/ StylePrompt
    \/ StyleClear

SpecStyle == InitStyle /\ [][NextStyle]_vars

\* ---- the writing sessions: the host writes letters to a fresh console
WriteLetters == {"a", "b", "c", "d"}

InitWrite ==
    /\ \E ss \in 0..(ScrollbackSize + 1) : BuiltWith(DefaultPrompt, 0, ss)
    /\ keep_styles = FALSE
    /\ Wrapping

WriteLetter ==
    /\ Len(written) < MaxWrites
    /\ \E l \in WriteLetters :
          /\ Called(write(Self, <<l>>), "write")
          /\ written' = Append(written, l)
          /\ UNCHANGED <<applied, koto_ok, koto_script>>

NextWrite == WriteLetter

SpecWrite == InitWrite /\ [][NextWrite]_vars

\* ---- the completion sessions: a host fills an IntelligentCompletion and
\* ---- asks it for suggestions
quit == <<"q", "u", "i", "t">>

exit == <<"e", "x", "i", "t">>

name_q == <<"q">>

qU == <<"q", "U">>

now == <<"n", "o", "w">>

no == <<"n", "o">>

file == <<"f", "i", "l", "e">>

mode == <<"m", "o", "d", "e">>

\* the register_command calls of the sessions
Registrations ==
    { [command |-> quit, aliases |-> <<exit, name_q>>],
      [command |-> name_q, aliases |-> <<>>],
      [command |-> qU, aliases |-> <<name_q>>] }

Parents == {quit}

Subcommands == {now, no}

Arguments == { [name |-> file, is_required |-> TRUE], [name |-> mode, is_required |-> FALSE] }

\* the lines the host asks suggestions for
Lines ==
    { <<>>, name_q, <<"q", "u">>, <<SP>> \o name_q \o <<SP>>, <<"e">>,
      quit \o <<SP, "n">>, name_q \o <<SP>> \o now, exit \o <<SP, SP, "n", "o">>,
      quit \o <<SP, "n", SP, "x">>, <<"x", SP, "n">> }

Registry == Index(aliases, command_structure)

RECURSIVE SumLen(_, _)
SumLen(S, field) ==
    IF S = {} THEN 0
    ELSE Len(command_structure[CHOOSE k \in S : TRUE][field])
         + SumLen(S \ {CHOOSE k \in S : TRUE}, field)

\* the console of the sessions is left as it was built
ConsoleKept ==
    UNCHANGED <<text, force_cursor_to_end, history_size, scrollback_size,
                command_history, history_cursor, prompt, prompt_len,
                save_prompt, search_partial, init_done, styled_segments,
                cursor, panicked, ret, was_searching, keep_styles, overflow_checks, written,
                tab_string, tab_nth, INSTANCE_COUNT, id, first_id, built,
                koto_runtime, koto_mode, egui_commands, theme, applied, koto_ok, event, koto_script>>

Registered(ic, name) ==
    /\ aliases' = ic.aliases
    /\ command_structure' = ic.command_structure
    /\ op' = name
    /\ input' = <<>>
    /\ suggestions' = <<>>
    /\ UNCHANGED tab_command_table
    /\ ConsoleKept

Suggested(l, s, name) ==
    /\ input' = l
    /\ suggestions' = s
    /\ op' = name
    /\ UNCHANGED <<aliases, command_structure, tab_command_table>>
    /\ ConsoleKept

InitCompletion == Built(DefaultPrompt, 0)

RegisterCommand ==
    \E r \in Registrations : Registered(register_command(Registry, r.command, r.aliases), "register_command")

RegisterArgument ==
    /\ SumLen(DOMAIN command_structure, "arguments") < MaxArgs
    /\ \E p \in Parents : \E a \in Arguments :
          Registered(register_argument(Registry, p, a.name, a.is_required), "register_argument")

RegisterSubcommand ==
    /\ SumLen(DOMAIN command_structure, "subcommands") < MaxSubs
    /\ \E p \in Parents : \E s \in Subcommands :
          Registered(register_subcommand(Registry, p, s), "register_subcommand")

GetSuggestions ==
    \E l \in Lines : \E keys \in Enumerations(DOMAIN command_structure) :
       \E alias_keys \in Enumerations(DOMAIN aliases) :
          Suggested(l, get_suggestions(Registry, l, keys, alias_keys), "get_suggestions")

NextCompletion ==
    \/ RegisterCommand
    \/ RegisterArgument
    \/ RegisterSubcommand
    \/ GetSuggestions

SpecCompletion == InitCompletion /\ [][NextCompletion]_vars

\* ---- the command table sessions: a host fills the flat table through
\* ---- command_table_mut and asks the console for suggestions
TableNames == {name_q, quit, qU}

InitTable == Built(DefaultPrompt, 0)

TablePush ==
    /\ Len(tab_command_table) < MaxTable
    /\ \E n \in TableNames :
          /\ tab_command_table' = Append(tab_command_table, n)
          /\ op' = "command_table_mut"
          /\ input' = <<>>
          /\ suggestions' = <<>>
          /\ UNCHANGED <<aliases, command_structure>>
          /\ ConsoleKept

GetIntelligentSuggestions ==
    \E l \in Lines :
       Suggested(l, get_intelligent_suggestions(tab_command_table, l), "get_intelligent_suggestions")

NextTable ==
    \/ TablePush
    \/ GetIntelligentSuggestions

SpecTable == InitTable /\ [][NextTable]_vars

\* ---- the completion cycle sessions: a host fills the flat table, the user
\* ---- types, presses Tab and goes on with other keys; the host writes
TabTable == <<quit, qU>>

TabLetters == {"q"}

\* a completed line is as long as the longest candidate
TabCap == MaxLine + Len(quit)

InitTab == Built(DefaultPrompt, MaxHistSize)

TabPush ==
    /\ ~init_done
    /\ Len(tab_command_table) < Len(TabTable)
    /\ tab_command_table' = Append(tab_command_table, TabTable[Len(tab_command_table) + 1])
    /\ op' = "command_table_mut"
    /\ UNCHANGED <<aliases, command_structure, input, suggestions>>
    /\ ConsoleKept

TabFrame(evs, name) ==
    /\ ~panicked
    /\ Len(tab_command_table) = Len(TabTable)
    /\ typed_len(Self) <= typed_cap(Self, MaxQuery, TabCap)
    /\ Returned(draw_events(Self, cursor, evs), name)

TabIdle == TabFrame(<<>>, "Idle")

TabType ==
    /\ InWindow
    /\ CanType(MaxQuery, MaxLine)
    /\ \E ch \in TabLetters : TabFrame(<<TextEv(ch)>>, "Type")

\* the user replaces the last character in one frame
TabRetype ==
    /\ InWindow
    /\ search_partial = None
    /\ cursor = Len(text)
    /\ typed_len(Self) > 0
    /\ \E ch \in TabLetters : TabFrame(<<KeyEv("Backspace"), TextEv(ch)>>, "Retype")

TabTab == tab_nth < MaxTabs /\ TabFrame(<<KeyEv("Tab")>>, "Tab")

TabArrowUp == TabFrame(<<KeyEv("ArrowUp")>>, "ArrowUp")

TabArrowDown == TabFrame(<<KeyEv("ArrowDown")>>, "ArrowDown")

TabEnter == TabFrame(<<KeyEv("Enter")>>, "Enter")

TabCtrlR == TabFrame(<<KeyEv("CtrlR")>>, "CtrlR")

TabEscape == TabFrame(<<KeyEv("Escape")>>, "Escape")

TabWrite ==
    /\ init_done
    /\ search_partial = None
    /\ lines_count(text) < MaxLines
    /\ \E data \in WriteData : Call(write(Self, data), "write")

NextTab ==
    \/ TabPush
    \/ TabIdle
    \/ TabType
    \/ TabRetype
    \/ TabTab
    \/ TabArrowUp
    \/ TabArrowDown
    \/ TabEnter
    \/ TabCtrlR
    \/ TabEscape
    \/ TabWrite

SpecTab == InitTab /\ [][NextTab]_vars

\* ---- the construction sessions: the process builds consoles, one by one or
\* ---- a run of them in a loop; the first console and the newest are watched
Runs == {1, 2 ^ (COUNTER_BITS \div 2)}

InitIdentity == Built(DefaultPrompt, 0)

\* n more consoles are built: each takes the counter as its id and adds one
NewConsoles ==
    \E n \in Runs :
       /\ built + n <= MaxBuilt
       /\ id' = fetch_add(INSTANCE_COUNT, n - 1)
       /\ INSTANCE_COUNT' = fetch_add(INSTANCE_COUNT, n)
       /\ built' = built + n
       /\ op' = "new"
       /\ UNCHANGED <<first_id, tab_string, tab_nth, aliases, command_structure,
                      tab_command_table, input, suggestions>>
       /\ UNCHANGED <<text, force_cursor_to_end, history_size, scrollback_size,
                      command_history, history_cursor, prompt, prompt_len,
                      save_prompt, search_partial, init_done, styled_segments,
                      cursor, panicked, ret, was_searching, keep_styles, overflow_checks, written,
                      koto_runtime, koto_mode, egui_commands, theme, applied, koto_ok, event, koto_script>>

NextIdentity == NewConsoles

SpecIdentity == InitIdentity /\ [][NextIdentity]_vars

\* ---- the scripting sessions: the host enables koto and runs scripts
SetThemeDark == [kind |-> "SetTheme", background |-> "black", foreground |-> "white"]

SetThemeLight == [kind |-> "SetTheme", background |-> "white", foreground |-> "black"]

WriteLineError == [kind |-> "WriteLine", text |-> <<"o">>, style |-> "error"]

ClearConsole == [kind |-> "ClearConsole"]

EguiCommands == {SetThemeDark, SetThemeLight, WriteLineError, ClearConsole}

\* the scripts of the sessions: at most MaxScript commands, ending well or not
Scripts ==
    { [emits |-> e, fails |-> f] :
        e \in UNION { [1..n -> EguiCommands] : n \in 0..MaxScript }, f \in BOOLEAN }

InitKoto == Built(DefaultPrompt, 0)

\* a call that returns a Result
KotoReturned(r, sc, name) ==
    /\ ~panicked
    /\ Assign(r.c)
    /\ op' = name
    /\ ret' = <<FALSE, None>>
    /\ was_searching' = is_some(search_partial)
    /\ event' = NoEvent
    /\ koto_ok' = r.ok
    /\ applied' = applied \o r.commands
    /\ koto_script' = sc
    /\ UNCHANGED <<cursor, written>>

KotoEnable == ~koto_runtime /\ Call(enable_koto(Self), "enable_koto")

ExecuteKoto ==
    \E sc \in Scripts :
       /\ Len(applied) + Len(sc.emits) <= MaxScript + 1
       /\ KotoReturned(execute_koto(Self, sc), sc, "execute_koto")

\* load_koto_file runs the file's script and applies nothing
LoadKotoFile ==
    /\ koto_runtime
    /\ \E sc \in Scripts :
          KotoReturned([c |-> execute(Self, sc), ok |-> ~sc.fails, commands |-> <<>>],
                       sc, "load_koto_file")

NextKoto ==
    \/ KotoEnable
    \/ ExecuteKoto
    \/ LoadKotoFile

SpecKoto == InitKoto /\ [][NextKoto]_vars

\* ---- the command sessions: lines with and without the koto prefix are
\* recalled from the history and committed, koto mode switched on and off
koto_a == KOTO_PREFIX \o <<SP, "a", SP>>

ScriptHistory == << <<"a">> \o KOTO_PREFIX, koto_a, <<"a">> >>

ScriptLen == Len(koto_a)

InitScript == Built(DefaultPrompt, Len(ScriptHistory))

ScriptLoadHistory ==
    /\ command_history = <<>>
    /\ Call(load_history(Self, ScriptHistory), "load_history")

ScriptIdle == Frame(IdleEv, "Idle", MaxQuery, ScriptLen)

ScriptArrowUp == Frame(KeyEv("ArrowUp"), "ArrowUp", MaxQuery, ScriptLen)

ScriptEnter == Frame(KeyEv("Enter"), "Enter", MaxQuery, ScriptLen)

\* the host switches koto mode and prompts, as after each of its commands
ScriptEnable ==
    /\ ~koto_mode
    /\ lines_count(text) < MaxLines
    /\ Call(draw_prompt(enable_koto(Self)), "enable_koto")

ScriptDisable ==
    /\ koto_mode
    /\ lines_count(text) < MaxLines
    /\ Call(draw_prompt(disable_koto(Self)), "disable_koto")

NextScript ==
    \/ ScriptLoadHistory
    \/ ScriptIdle
    \/ ScriptArrowUp
    \/ ScriptEnter
    \/ ScriptEnable
    \/ ScriptDisable

SpecScript == InitScript /\ [][NextScript]_vars

\* ---- the enhanced searches: the host loads a history and searches it
SearchedCommands ==
    { <<"a", "b">>, <<"A", "B">>, <<"a", "b", "a">>, <<"b", "a", "b">>,
      <<"a", "a", "b">>, <<"a", E_ACUTE, "b">>, <<E_ACUTE, "a", "b">> }

SearchedHistories == UNION { [1..n -> SearchedCommands] : n \in 0..MaxSearched }

SearchQueries == { <<>>, <<"a", "b">>, <<"A", "b">>, <<"b", "b">>, <<E_ACUTE, "b">> }

InitEnhanced == Built(DefaultPrompt, MaxSearched)

EnhancedLoadHistory ==
    \E h \in SearchedHistories : Call(load_history(Self, h), "load_history")

\* a search returns or panics; the console is left as it was
Searched(q, r, name) ==
    /\ ~panicked
    /\ input' = q
    /\ suggestions' = r.results
    /\ panicked' = r.panic
    /\ op' = name
    /\ UNCHANGED <<text, force_cursor_to_end, history_size, scrollback_size,
                   command_history, history_cursor, prompt, prompt_len,
                   save_prompt, search_partial, init_done, styled_segments,
                   cursor, ret, was_searching, keep_styles, overflow_checks, written,
                   aliases, command_structure, tab_command_table,
                   tab_string, tab_nth, INSTANCE_COUNT, id, first_id, built,
                   koto_runtime, koto_mode, egui_commands, theme, applied, koto_ok,
                   event, koto_script>>

EnhancedSearch ==
    \E q \in SearchQueries : Searched(q, enhanced_search(Self, q), "enhanced_search")

NextEnhanced ==
    \/ EnhancedLoadHistory
    \/ EnhancedSearch

SpecEnhanced == InitEnhanced /\ [][NextEnhanced]_vars

\* ---- the sessions of every prompt and build: the main sessions, the
\* prompt being empty or not, the build checking integer overflow or not
BuiltPrompts == { <<>>, DefaultPrompt }

InitPrompted ==
    \E p \in BuiltPrompts :
       /\ BuiltWith(p, MaxHistSize, ScrollbackSize)
       /\ keep_styles = FALSE
       /\ overflow_checks \in BOOLEAN

SpecPrompted == InitPrompted /\ [][Next]_vars

\* ------------------------------------------------------------ properties
\* the text after the last newline of the buffer (the current line)
LastLineRaw == last_of(text)

\* the current line starts with the active prompt
PromptLine == starts_with(LastLineRaw, prompt)

Searching == search_partial # None

\* the n newest elements of s, oldest first
LastN(s, n) == IF Len(s) <= n THEN s ELSE SubSeq(s, Len(s) - n + 1, Len(s))

\* C1: a commit made with Enter on a history that holds at most history_size
\* lines (as every history grown from the empty one by commits should) leaves
\* exactly the history_size most recent committed lines, oldest first
C1_CommitKeepsNewest ==
    [][(op' = "Enter" /\ Len(command_history) <= history_size /\ is_some(ret'[2]))
        => command_history' = LastN(command_history \o <<ret'[2][1]>>, history_size)]_vars

\* C2: the history never holds more than history_size entries
C2_HistoryBounded == Len(command_history) <= history_size

\* C3: in normal mode with a non-empty history, Up when not browsing moves the
\* browsing cursor to the newest entry, each further Up moves it to the next
\* older index, and Up at index 0 changes neither the cursor nor the buffer
C3_UpStepsBack ==
    [][(op' = "ArrowUp" /\ search_partial = None /\ command_history # <<>>)
        => IF history_cursor = None
           THEN history_cursor' = Some(Len(command_history) - 1)
           ELSE IF history_cursor[1] > 0
                THEN history_cursor' = Some(history_cursor[1] - 1)
                ELSE history_cursor' = history_cursor /\ text' = text]_vars

C3_Witness ==
    /\ op = "ArrowUp"
    /\ search_partial = None
    /\ Len(command_history) >= 2
    /\ history_cursor = Some(0)

\* the indices below i of the entries of h that contain q
OlderMatches(h, q, i) == {j \in 0..(i - 1) : j < Len(h) /\ contains(h[j + 1], q)}

Largest(S) == CHOOSE i \in S : \A j \in S : j <= i

\* the largest index of an entry of h that contains q
LargestMatch(h, q) ==
    IF OlderMatches(h, q, Len(h)) = {} THEN None ELSE Some(Largest(OlderMatches(h, q, Len(h))))

Max(a, b) == IF a > b THEN a ELSE b

\* the least cursor offset at which Backspace and ArrowLeft are left to the widget
MinEditOffset ==
    CHOOSE m \in 0..(Len(text) + 1) :
        /\ ~handle_key_ArrowLeft(Self, m).kill
        /\ \A k \in 0..(m - 1) : handle_key_ArrowLeft(Self, k).kill

C5_CursorEntryShown ==
    [][(op' \in {"ArrowUp", "CtrlR", "Type", "Backspace"}
          /\ (Searching \/ PromptLine)
          /\ is_some(history_cursor') /\ history_cursor' # history_cursor)
        => LastLineRaw' = prompt' \o command_history[history_cursor'[1] + 1]]_vars

C7_ChordContinues ==
    [][(op' = "CtrlR" /\ Searching /\ is_some(history_cursor))
        => IF OlderMatches(command_history, search_partial[1], history_cursor[1]) # {}
           THEN history_cursor' =
                    Some(Largest(OlderMatches(command_history, search_partial[1], history_cursor[1])))
           ELSE history_cursor' = history_cursor /\ LastLineRaw' = LastLineRaw]_vars

\* C7 amended: the same for a non-empty query q; with the empty query the
\* chord sets a cursor i > 0 to None (a cursor at 0 stays) and leaves the line
C7_ChordContinuesNonEmpty ==
    [][(op' = "CtrlR" /\ Searching /\ is_some(history_cursor))
        => IF search_partial[1] = <<>>
           THEN /\ history_cursor' = (IF history_cursor[1] > 0 THEN None ELSE history_cursor)
                /\ LastLineRaw' = LastLineRaw
           ELSE IF OlderMatches(command_history, search_partial[1], history_cursor[1]) # {}
                THEN history_cursor' =
                         Some(Largest(OlderMatches(command_history, search_partial[1], history_cursor[1])))
                ELSE history_cursor' = history_cursor /\ LastLineRaw' = LastLineRaw]_vars

C7_Witness ==
    /\ op = "CtrlR"
    /\ was_searching
    /\ command_history = <<cab, xab, abc>>
    /\ search_partial = Some(<<"a">>)
    /\ history_cursor = Some(1)
    /\ LastLineRaw = search_prompt_with(<<"a">>) \o xab

\* what the search chord does in normal mode whatever becomes of the cursor:
\* the prompt is saved, the line is the search prompt alone, the query is
\* empty, and neither the browsing cursor nor the history is touched
EntryPrimes ==
    /\ save_prompt' = Some(prompt)
    /\ prompt' = SEARCH_PROMPT
    /\ search_partial' = Some(<<>>)
    /\ LastLineRaw' = SEARCH_PROMPT
    /\ init_done => text' = SubSeq(text, 1, rfind_nl(text)) \o SEARCH_PROMPT
    /\ history_cursor' = history_cursor
    /\ command_history' = command_history

\* C8 as stated: the search chord in normal mode saves the prompt, replaces
\* the line by the search prompt with an empty query, runs no scan, and the
\* cursor is at the end of the buffer when the frame is over
C8_EntryCursorAtEnd ==
    [][(op' = "CtrlR" /\ ~Searching) => (EntryPrimes /\ cursor' = Len(text'))]_vars

\* C8 amended: the same, but the cursor: force_cursor_to_end is set and stays
\* set, and the frame leaves the cursor at the query slot, one before the end
\* of the buffer, unless it already was at or past the slot
C8_EntryPrimesSearch ==
    [][(op' = "CtrlR" /\ ~Searching)
        => /\ EntryPrimes
           /\ force_cursor_to_end'
           /\ cursor' = Max(rfind_nl(text') + SEARCH_PROMPT_SLOT_OFF + 1, Min(cursor, Len(text')))]_vars

C8_Witness ==
    /\ op = "CtrlR"
    /\ ~was_searching
    /\ search_partial = Some(<<>>)
    /\ save_prompt = Some(DefaultPrompt)
    /\ LastLineRaw = SEARCH_PROMPT
    /\ history_cursor = Some(1)
    /\ cursor = rfind_nl(text) + SEARCH_PROMPT_SLOT_OFF + 1
    /\ cursor < Len(text)

\* what leaving search mode does: the saved prompt is the prompt again, no
\* prompt is saved, the search state is cleared, and the last line of the
\* buffer starts at the same place with the restored prompt
ExitRestores ==
    /\ search_partial' = None
    /\ save_prompt' = None
    /\ prompt' = save_prompt[1]
    /\ CASE op' = "Escape" -> text' = SubSeq(text, 1, rfind_nl(text)) \o prompt'
         [] op' = "ArrowDown" ->
              /\ rfind_nl(text') = rfind_nl(text)
              /\ starts_with(text', SubSeq(text, 1, rfind_nl(text)) \o prompt')
         [] OTHER -> lines_last(text') = Some(prompt')

\* a step of search mode that scans a non-empty history: the search chord, or
\* an edit that changes the length of the buffer
ScanRan ==
    /\ Searching
    /\ command_history # <<>>
    /\ \/ op' = "CtrlR"
       \/ op' \in {"Type", "Backspace"} /\ Len(text') # Len(text)

\* C9 as stated: Escape, Enter, arrow-down and a search scan that finds the
\* query empty or unmatched each leave search mode, restoring the prompt
C9_KeysAndFailedScansExit ==
    [][(Searching /\ (op' \in {"Escape", "Enter", "ArrowDown"}
                      \/ (ScanRan /\ (unwrap_or(search_partial', <<>>) = <<>>
                                      \/ history_cursor' = None))))
        => ExitRestores]_vars

\* C9 amended: Escape, Enter and arrow-down each leave search mode, restoring
\* the saved prompt on a last line truncated to its start; the search chord
\* and the edits of search mode, whatever their scan finds, and a frame
\* without input leave search mode active with the saved prompt kept
C9_KeysExit ==
    [][/\ (Searching /\ op' \in {"Escape", "Enter", "ArrowDown"}) => ExitRestores
       /\ (Searching /\ op' \in {"CtrlR", "Type", "Backspace", "Idle"})
            => (Searching' /\ save_prompt' = save_prompt)]_vars

C9_Witness ==
    /\ op = "Enter"
    /\ was_searching
    /\ search_partial = None
    /\ save_prompt = None
    /\ prompt = DefaultPrompt
    /\ ret = <<TRUE, Some(<<"a">>)>>
    /\ lines_last(text) = Some(prompt)

\* C10: the search chord in normal mode saves the prompt P and keeps the start
\* of the last line; while search mode lasts both are kept; Escape then makes
\* P the prompt again on a last line that starts at the same place, and
\* Backspace and ArrowLeft are again refused below start-of-last-line +
\* length(P) + 1
C10_EnterExitRestoresWindow ==
    [][/\ (op' = "CtrlR" /\ ~Searching)
            => /\ save_prompt' = Some(prompt)
               /\ init_done => rfind_nl(text') = rfind_nl(text)
       /\ (Searching /\ Searching')
            => /\ save_prompt' = save_prompt
               /\ rfind_nl(text') = rfind_nl(text)
       /\ (Searching /\ op' = "Escape")
            => /\ prompt' = save_prompt[1]
               /\ rfind_nl(text') = rfind_nl(text)
               /\ LastLineRaw' = prompt'
               /\ MinEditOffset' = rfind_nl(text') + Len(prompt') + 1]_vars

C10_Witness ==
    /\ op = "Escape"
    /\ was_searching
    /\ search_partial = None
    /\ prompt = DefaultPrompt
    /\ LastLineRaw = prompt
    /\ rfind_nl(text) > 0
    /\ MinEditOffset = rfind_nl(text) + Len(prompt) + 1

\* C11: a prompt is saved exactly when search mode is active, so the unwrap of
\* exit_search_mode never panics; when search mode is not active the active
\* prompt is the prompt the console was built with
C11_SavedPromptIffSearching ==
    /\ is_some(save_prompt) <=> is_some(search_partial)
    /\ ~panicked
    /\ ~Searching => (prompt = DefaultPrompt /\ prompt_len = Len(DefaultPrompt))

C11_Witness ==
    /\ op = "ArrowDown"
    /\ was_searching
    /\ search_partial = None
    /\ save_prompt = None
    /\ prompt = DefaultPrompt
    /\ command_history # <<>>

\* C12: a browsing cursor that is present is an index of the history, so the
\* len - 1 of arrow-down does not underflow and no index is out of range
C12_CursorInHistory ==
    /\ is_some(history_cursor) => history_cursor[1] < Len(command_history)
    /\ ~panicked

C12_Witness ==
    /\ op = "ArrowDown"
    /\ ~was_searching
    /\ history_cursor = Some(1)
    /\ Len(command_history) = 2
    /\ LastLineRaw = prompt \o command_history[2]

\* the text of the current line after the search prompt and its query
SearchShown ==
    SubSeq(LastLineRaw, Len(search_prompt_with(unwrap_or(search_partial, <<>>))) + 1,
           Len(LastLineRaw))

\* C13: Enter in search mode commits the text shown after the search prompt,
\* pushes it to the history by the rule of every commit (the oldest entry
\* leaves first when the history is full), resets the browsing cursor and
\* leaves search mode with the saved prompt restored on the last line
C13_SearchEnterCommits ==
    [][(Searching /\ op' = "Enter")
        => /\ ret' = <<TRUE, Some(SearchShown)>>
           /\ command_history' = push_history(command_history, history_size, SearchShown)
           /\ history_cursor' = None
           /\ search_partial' = None
           /\ save_prompt' = None
           /\ prompt' = save_prompt[1]
           /\ prompt' = DefaultPrompt
           /\ lines_last(text') = Some(prompt')]_vars

C13_Witness ==
    /\ op = "Enter"
    /\ was_searching
    /\ ret = <<TRUE, Some(<<"a">>)>>
    /\ command_history = << <<"a">>, <<"a">> >>
    /\ history_cursor = None
    /\ ~Searching
    /\ prompt = DefaultPrompt

\* the cursor offsets a key event can arrive with
Offsets == 0..(Len(text) + 1)

\* C14: in normal mode handle_key consumes Backspace and ArrowLeft, commits
\* nothing and changes nothing of the console, at every cursor offset below
\* start-of-last-line + length(prompt) + 1; at or above it they are not consumed
C14_NormalLeftRefused ==
    ~Searching
    => \A cur \in Offsets : \A key \in {"Backspace", "ArrowLeft"} :
          handle_key(Self, key, cur) = hk(Self, cur < rfind_nl(text) + Len(prompt) + 1, None)

C14_Witness ==
    /\ op = "ArrowLeft"
    /\ ~Searching
    /\ ret = <<TRUE, None>>
    /\ cursor = rfind_nl(text) + Len(prompt)
    /\ cursor < Len(text)
    /\ rfind_nl(text) > 0

\* the decision of handle_key in search mode: key is consumed exactly when refused
SearchKeyRefused(key, refused) ==
    \A cur \in Offsets : handle_key(Self, key, cur) = hk(Self, refused[cur], None)

\* C15 as stated: in search mode Left and Backspace are consumed no-ops exactly
\* below start-of-last-line + 18 + 2, Right and Delete exactly above
\* start-of-last-line + length(search literal) + length(query)
C15_WindowPastColon ==
    Searching
    => /\ \A key \in {"ArrowLeft", "Backspace"} :
            SearchKeyRefused(key, [cur \in Offsets |->
                cur < rfind_nl(text) + SEARCH_PROMPT_SLOT_OFF + 2])
       /\ \A key \in {"ArrowRight", "Delete"} :
            SearchKeyRefused(key, [cur \in Offsets |->
                cur > rfind_nl(text) + Len(SEARCH_PROMPT) + Len(search_partial[1])])

\* C15 amended: Left and Backspace are consumed no-ops exactly below
\* start-of-last-line + 18 + 2, Right and Delete exactly above
\* start-of-last-line + length(search literal) - 2 + length(query): the keys
\* keep the cursor on the query, from the slot to the colon that closes it
C15_WindowOnQuery ==
    Searching
    => /\ \A key \in {"ArrowLeft", "Backspace"} :
            SearchKeyRefused(key, [cur \in Offsets |->
                cur < rfind_nl(text) + SEARCH_PROMPT_SLOT_OFF + 2])
       /\ \A key \in {"ArrowRight", "Delete"} :
            SearchKeyRefused(key, [cur \in Offsets |->
                cur > rfind_nl(text) + Len(SEARCH_PROMPT) - 2 + Len(search_partial[1])])

C15_Witness ==
    /\ op = "ArrowRight"
    /\ Searching
    /\ ret = <<TRUE, None>>
    /\ search_partial = Some(<<"a">>)
    /\ cursor = rfind_nl(text) + SEARCH_PROMPT_SLOT_OFF + 2
    /\ text[cursor + 1] = COLON

\* the render-side clamp of normal mode leaves the cursor where it is
ClampLetsStand == cursor >= rfind_nl(text) + prompt_len - 1

\* C16: in normal mode, with the cursor at an offset the render-side clamp lets
\* stand, a Left, Backspace or Delete key event neither moves the cursor left
\* of the prompt of the last line nor removes a character of that prompt
C16_KeysKeepPrompt ==
    [][(op' \in {"ArrowLeft", "Backspace", "Delete"} /\ ~Searching /\ init_done
           /\ PromptLine /\ ClampLetsStand)
        => /\ PromptLine'
           /\ cursor' >= Min(cursor, rfind_nl(text) + Len(prompt))]_vars

\* the spans of the style list end inside the buffer
SpansInText == \A i \in 1..Len(styled_segments) : styled_segments[i].end <= Len(text)

\* C17: after any sequence of write, write_styled, prompt, commit and search
\* enter and exit, every stored style span ends at or before the length of
\* the buffer (a span into text that an operation discards goes with it)
C17_SpansEndInBuffer == SpansInText

\* C18: clear() empties the buffer and the style-span list together and
\* leaves the history, the browsing cursor, the prompt and the search state
\* as they were
C18_ClearEmptiesBoth ==
    [][op' = "clear"
        => /\ text' = <<>>
           /\ styled_segments' = <<>>
           /\ UNCHANGED <<command_history, history_cursor, history_size, scrollback_size,
                          prompt, prompt_len, save_prompt, search_partial, init_done>>]_vars

C18_Witness ==
    /\ op = "clear"
    /\ text = <<>>
    /\ styled_segments = <<>>
    /\ Searching
    /\ save_prompt = Some(DefaultPrompt)
    /\ history_cursor = Some(0)
    /\ command_history # <<>>

\* the scrollback check on the buffer before leaves the buffer after
ScrollChecked(before, after) ==
    IF lines_count(before) >= scrollback_size
    THEN /\ lines(after) = LastN(lines(before), scrollback_size - 1)
         /\ after = <<>> \/ after[Len(after)] = NL
    ELSE after = before

C20_WriteBoundsLines ==
    /\ (op = "write" /\ scrollback_size >= 1) => lines_count(text) <= scrollback_size - 1
    /\ (scrollback_size = 3 /\ written = <<"a", "b", "c", "d">>)
         => /\ lines_count(text) <= 2
            /\ \A i \in 1..Len(text) : text[i] # "a"

C20_Witness ==
    /\ scrollback_size = 3
    /\ written = <<"a", "b", "c", "d">>
    /\ op = "write"
    /\ text = <<NL, "d", NL>>

\* the buffer t after the scrollback check
ScrollKept(t) == truncate_scroll_back([Self EXCEPT !.text = t]).text

\* C21: write(data) puts a newline before data exactly when the buffer is not
\* empty and does not end with a newline; on an empty buffer, or one that
\* ends with a newline, data is appended with no newline before it
C21_WriteNewlineWhenNeeded ==
    [][op' = "write"
        => text' = ScrollKept(on_new_line(text) \o <<written'[Len(written')]>>)]_vars

\* the text a following Enter commits
CommitLine == get_last_line(Self)

\* C22: write leaves the line being edited alone: the text a following Enter
\* commits is the same after the write as before it, and the cursor is forced
\* to the end of the buffer
C22_WriteKeepsLine ==
    [][op' = "write" => (CommitLine' = CommitLine /\ force_cursor_to_end')]_vars

\* C23: Up, Down, the search chord and Escape change only the current line:
\* the buffer before the start of the last line is the same after the event
C23_KeysKeepScrollback ==
    [][(op' \in {"ArrowUp", "ArrowDown", "CtrlR", "Escape"} /\ init_done)
        => starts_with(text', SubSeq(text, 1, rfind_nl(text)))]_vars

\* C24: Up and Down pressed in search mode leave search mode before any
\* history navigation, whatever the history holds, the empty history included
C24_ArrowsLeaveSearch ==
    [][(Searching /\ op' \in {"ArrowUp", "ArrowDown"})
        => /\ search_partial' = None
           /\ save_prompt' = None
           /\ prompt' = save_prompt[1]]_vars

\* C25: Escape is consumed and commits nothing; after it search mode is not
\* active and the browsing cursor is None; the history is unchanged
C25_EscapeCancels ==
    [][op' = "Escape"
        => /\ ret' = <<TRUE, None>>
           /\ search_partial' = None
           /\ save_prompt' = None
           /\ history_cursor' = None
           /\ command_history' = command_history]_vars

C25_Witness ==
    /\ op = "Escape"
    /\ was_searching
    /\ ~Searching
    /\ history_cursor = None
    /\ Len(command_history) = 2
    /\ ret = <<TRUE, None>>

\* the step leaves the console, the cursor and the return value of the frame d
SameAsFrame(d) ==
    /\ text' = d.c.text
    /\ command_history' = d.c.command_history
    /\ history_cursor' = d.c.history_cursor
    /\ prompt' = d.c.prompt
    /\ search_partial' = d.c.search_partial
    /\ force_cursor_to_end' = d.c.force_cursor_to_end
    /\ cursor' = d.cursor
    /\ ret' = <<d.kill, d.cmd>>

\* the frame in which Enter arrives alone
EnterAlone == draw(Self, cursor, KeyEv("Enter"))

\* C26: the key events of one frame are handled in arrival order and the
\* handling stops at the first that commits a line: one line is committed and
\* pushed, and the events queued after that Enter change nothing (the frame
\* ends as the frame with that Enter alone ends)
C26_NothingAfterEnter ==
    [][op' \in {"Enter+Enter", "Enter+Backspace", "Enter+ArrowLeft"} => SameAsFrame(EnterAlone)]_vars

\* C27: a key or modifier combination other than unmodified Up, Down, Enter,
\* Escape, Tab, Left, Right, Backspace, Delete and the search chord is not
\* consumed, commits nothing and leaves the console as it is, in normal mode
\* and in search mode, at every cursor offset
C27_OtherKeysPassThrough ==
    \A key \in OtherKeys : \A cur \in Offsets : handle_key(Self, key, cur) = hk(Self, FALSE, None)

C27_Witness ==
    /\ op = "Other"
    /\ ret = <<FALSE, None>>
    /\ Searching
    /\ search_partial = Some(<<"a">>)
    /\ history_cursor = Some(2)

\* the elements of a list, and a list in strictly ascending byte order
Elements(s) == { s[i] : i \in 1..Len(s) }

Ascending(s) == \A i \in 1..(Len(s) - 1) : str_lt(s[i], s[i + 1])

Tokens == split_whitespace(input)

RegisteredNames == DOMAIN command_structure \cup DOMAIN aliases

QuitAlone ==
    /\ DOMAIN command_structure = {quit}
    /\ DOMAIN aliases = {exit, name_q}
    /\ aliases[exit] = quit
    /\ aliases[name_q] = quit

\* C28: for an input of one token p, get_suggestions returns exactly the
\* registered command names and aliases that start with p, compared case by
\* case, in ascending order and each once; with the command "quit" and its
\* aliases "exit" and "q", "qu" yields ["quit"] and "q" yields ["q", "quit"]
C28_SingleTokenSuggestions ==
    (op = "get_suggestions" /\ Len(Tokens) = 1)
        => /\ Elements(suggestions) = { n \in RegisteredNames : starts_with(n, Tokens[1]) }
           /\ Ascending(suggestions)
           /\ (QuitAlone /\ input = <<"q", "u">>) => suggestions = <<quit>>
           /\ (QuitAlone /\ input = name_q) => suggestions = <<name_q, quit>>

C28_Witness ==
    /\ op = "get_suggestions"
    /\ input = name_q
    /\ DOMAIN command_structure = {quit, name_q, qU}
    /\ name_q \in DOMAIN aliases
    /\ suggestions = <<name_q, qU, quit>>

\* the canonical command of a first token: the token when it is a command
\* name, else the command its alias stands for
Canonical(word) == IF word \in DOMAIN command_structure THEN word ELSE aliases[word]

\* an argument as the specification writes it
Bracketed(arg) == IF arg.is_required THEN arg.name ELSE <<"[">> \o arg.name \o <<"]">>

Declared(cmd_info, tokens) ==
    IF Len(tokens) = 2 /\ cmd_info.subcommands # <<>>
    THEN filter_prefix(cmd_info.subcommands, tokens[2])
    ELSE [i \in 1..Len(cmd_info.arguments) |-> Bracketed(cmd_info.arguments[i])]

\* C29: for an input of two or more tokens, get_suggestions resolves the first
\* token to a command (a command name first, else an alias); at the second
\* token of a command with subcommands it returns the subcommands that start
\* with the second token, in declaration order; otherwise the command's
\* arguments in declaration order, `name` when required and `[name]` when
\* optional; a first token that resolves to nothing yields the empty list
C29_LaterTokenSuggestions ==
    (op = "get_suggestions" /\ Len(Tokens) >= 2)
        => suggestions = IF Tokens[1] \in RegisteredNames
                         THEN Declared(command_structure[Canonical(Tokens[1])], Tokens)
                         ELSE <<>>

\* C30: without a structured index, get_intelligent_suggestions returns the
\* entries of the flat command table that start with the first token of the
\* input, sorted and each once, whatever the table holds
C30_FlatSuggestionsSorted ==
    (op = "get_intelligent_suggestions" /\ Tokens # <<>>)
        => suggestions = dedup(sort(filter_prefix(tab_command_table, Tokens[1])))

\* a completion cycle is under way: a prefix is remembered
Cycling == tab_nth > 0

\* C31: the completion cycle state (remembered prefix and cycle index) is
\* reset whenever the buffer changes for a reason other than completion:
\* after a typed edit (also one that keeps the length), history navigation,
\* search, a commit or a write the prefix is empty and the index is 0
C31_ChangeResetsCycle ==
    [][(text' # text /\ op' # "Tab") => (tab_string' = <<>> /\ tab_nth' = 0)]_vars

\* the console c ends with the prompt p on a line of its own, and the newest
\* style span covers exactly that prompt
PromptDrawn(c, p) ==
    /\ last_of(c.text) = p
    /\ c.styled_segments # <<>>
    /\ c.styled_segments[Len(c.styled_segments)].start = Len(c.text) - Len(p)
    /\ c.styled_segments[Len(c.styled_segments)].end = Len(c.text)

\* C32 as stated: after every commit and after every exit from search mode
\* the last line of the buffer is exactly the normal prompt, and a style span
\* from the prompt's first character to the end of the buffer has been added
C32_PromptAfterCommitOrExit ==
    [][(op' = "Enter" \/ (Searching /\ ~Searching')) => PromptDrawn(Self', prompt')]_vars

\* C32 as amended: leaving search mode draws the prompt: in every state of
\* search mode exit_search_mode leaves the saved prompt alone on the last
\* line under a new span that covers exactly it; a commit in normal mode
\* appends nothing: the buffer is the old one, cut to the scrollback
C32_ExitDrawsPrompt ==
    [][/\ Searching' => /\ PromptDrawn(exit_search_mode(Self'), save_prompt'[1])
                        /\ Len(exit_search_mode(Self').styled_segments) = Len(styled_segments') + 1
       /\ (op' = "Enter" /\ ~Searching /\ init_done) => text' = ScrollKept(text)]_vars

C32_Witness ==
    /\ op = "Escape"
    /\ was_searching
    /\ ~Searching
    /\ PromptDrawn(Self, DefaultPrompt)
    /\ Len(styled_segments) >= 2
    /\ styled_segments[Len(styled_segments) - 1].style = "info"

\* C33: every console built in one process has an identity different from
\* that of every other console built in it, however many are built: the
\* newest console never has the identity of the first
C33_IdentitiesDiffer == built > 1 => id # first_id

\* the background the last theme command of a script sets
RECURSIVE LastBackground(_, _)
LastBackground(commands, before) ==
    IF commands = <<>> THEN before
    ELSE IF commands[Len(commands)].kind = "SetTheme" THEN commands[Len(commands)].background
    ELSE LastBackground(SubSeq(commands, 1, Len(commands) - 1), before)

\* C34: the commands a script queues are taken from the queue once, by the
\* execute_koto call that ran the script (the call adds exactly the
\* commands of its own script to those applied so far), and applied in the order the
\* script issued them (the last theme command decides the theme, a final
\* clear leaves the buffer empty), and the queue is left empty; a run that
\* returns an error applies nothing, and no later call applies its commands
C34_ScriptCommandsDrainedOnce ==
    [][op' = "execute_koto" =>
          IF koto_ok'
          THEN /\ applied' = applied \o koto_script'.emits
               /\ egui_commands' = <<>>
               /\ theme'.background = LastBackground(koto_script'.emits, theme.background)
               /\ (koto_script'.emits # <<>> /\ koto_script'.emits[Len(koto_script'.emits)] = ClearConsole)
                     => text' = <<>>
          ELSE /\ applied' = applied
               /\ text' = text
               /\ theme' = theme]_vars

C34_Witness ==
    /\ op = "execute_koto"
    /\ koto_ok
    /\ koto_script.emits = <<SetThemeDark, SetThemeLight>>
    /\ theme.background = "white"
    /\ egui_commands = <<>>
    /\ Len(applied) > 2

\* the entries of the history
HistoryEntries == { command_history[i] : i \in 1..Len(command_history) }

\* C35: in search mode, after typing and Ctrl-R presses, the text after the
\* search prompt on the last line is empty or a history entry that contains
\* the query, so an edit that leaves the query without a match leaves no
\* earlier match on the line
C35_SearchLineMatchesQuery ==
    [][(Searching' /\ ~panicked' /\ op' \in {"Type", "CtrlR"}) =>
          \/ get_last_line(Self') = <<>>
          \/ /\ get_last_line(Self') \in HistoryEntries'
             /\ contains(get_last_line(Self'), search_partial'[1])]_vars

\* the entries of h before its newest, as a run at the end of old
OlderKept(h, old) ==
    /\ Len(h) >= 1
    /\ Len(h) - 1 <= Len(old)
    /\ SubSeq(h, 1, Len(h) - 1) = SubSeq(old, Len(old) - Len(h) + 2, Len(old))

\* C36: Enter always commits: whatever the current line holds, an empty
\* line and a line equal to the newest history entry included, the Enter arm
\* of handle_key returns consumed with Some(line), appends the line to the
\* history as its newest entry, sets the browsing cursor to None and sets
\* force_cursor_to_end
C36_EnterAlwaysCommits ==
    [][(op' = "Enter" /\ ~panicked') =>
          /\ ret' = <<TRUE, Some(get_last_line(Self))>>
          /\ OlderKept(command_history', command_history)
          /\ command_history'[Len(command_history')] = get_last_line(Self)
          /\ history_cursor' = None
          /\ handle_key_Enter(Self).c.force_cursor_to_end
          /\ <<handle_key_Enter(Self).kill, handle_key_Enter(Self).cmd>> = ret']_vars

C36_Witness ==
    /\ op = "Enter"
    /\ ret = <<TRUE, Some(<<"a">>)>>
    /\ command_history = << <<"a">>, <<"a">> >>
    /\ history_cursor = None

\* n spaces
Spaces(n) == [i \in 1..n |-> SP]

\* t is s without the spaces it starts and ends with
Trimmed(t, s) ==
    /\ t = <<>> \/ (Head(t) # SP /\ t[Len(t)] # SP)
    /\ \E i, j \in 0..Len(s) : s = Spaces(i) \o t \o Spaces(j)

\* C37: the line a frame commits is reported as KotoScript exactly when koto
\* mode is on or the line starts with "koto>" (the text being the rest after
\* the prefix, trimmed, or the whole line when there is no prefix), as
\* Command with the line as it is otherwise, and a frame that commits
\* nothing reports None
C37_CommittedLineEvent ==
    IF ret[2] = None THEN event = NoEvent
    ELSE /\ event.kind \in {"KotoScript", "Command"}
         /\ event.kind = "KotoScript" <=> (koto_mode \/ starts_with(ret[2][1], KOTO_PREFIX))
         /\ event.kind = "Command" => event.text = ret[2][1]
         /\ event.kind = "KotoScript" =>
               IF starts_with(ret[2][1], KOTO_PREFIX)
               THEN Trimmed(event.text, SubSeq(ret[2][1], Len(KOTO_PREFIX) + 1, Len(ret[2][1])))
               ELSE event.text = ret[2][1]

C37_Witness ==
    /\ op = "Enter"
    /\ koto_mode
    /\ ret[2] = Some(<<"a">>)
    /\ event = [kind |-> "KotoScript", text |-> <<"a">>]

\* q occurs in s as an in-order subsequence of characters
RECURSIVE Subsequence(_, _)
Subsequence(q, s) ==
    IF q = <<>> THEN TRUE
    ELSE IF s = <<>> THEN FALSE
    ELSE IF Head(q) = Head(s) THEN Subsequence(Tail(q), Tail(s))
    ELSE Subsequence(q, Tail(s))

Matches(q, e) == Subsequence(to_lowercase(q), to_lowercase(e))

\* 1: case-insensitive exact match, 2: prefix, 3: other substring, 4: fuzzy
MatchClass(q, e) ==
    IF to_lowercase(e) = to_lowercase(q) THEN 1
    ELSE IF starts_with(to_lowercase(e), to_lowercase(q)) THEN 2
    ELSE IF contains(to_lowercase(e), to_lowercase(q)) THEN 3
    ELSE 4

\* how often e occurs in the sequence h
Count(h, e) == Cardinality({i \in 1..Len(h) : h[i] = e})

\* C38: enhanced_search of the empty query returns the whole history, oldest
\* first; of another query it returns exactly the history entries in which
\* the lowered query occurs as an in-order subsequence of characters, exact
\* matches before prefix matches before other substring matches before
\* fuzzy matches
C38_EnhancedSearchResults ==
    op = "enhanced_search" =>
       /\ ~panicked
       /\ input = <<>> => suggestions = command_history
       /\ input # <<>> =>
             /\ \A e \in SearchedCommands :
                   Count(suggestions, e) = IF Matches(input, e) THEN Count(command_history, e) ELSE 0
             /\ \A i, j \in 1..Len(suggestions) :
                   i < j => MatchClass(input, suggestions[i]) <= MatchClass(input, suggestions[j])

\* C39: whatever the prompt, the empty one included, the bound
\* start-of-last-line + prompt_len - 1 of the normal-mode cursor fix-up does
\* not underflow, so no frame panics and no bound wraps, a buffer of a
\* single line included
C39_CursorBoundNoUnderflow ==
    /\ ~panicked
    /\ (init_done /\ search_partial = None) => ~bound_underflows(Self)

TypeOK ==
    /\ history_size \in 0..(MaxHistSize + SearchHistSize)
    /\ init_done \in BOOLEAN
    /\ was_searching \in BOOLEAN
    /\ panicked \in BOOLEAN
    /\ cursor \in Nat
    /\ Len(tab_command_table) <= MaxTable
    /\ DOMAIN aliases \subseteq {exit, name_q}
    /\ DOMAIN command_structure \subseteq {quit, name_q, qU}

====
